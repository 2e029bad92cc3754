-------------------------- MODULE ResourceBodyProofs --------------------------
(***************************************************************************)
(* What to_dict does for every table of classes, and for any number of     *)
(* calls: the exceptions to the properties of ResourceBody come from the   *)
(* forms of a table that StickyForms and MeddlingForms name, and from no   *)
(* others.                                                                 *)
(***************************************************************************)
EXTENDS ResourceBody, TLAPS

LEMMA StickyOfClass ==
  ASSUME NEW c \in DOMAIN Classes, NEW x,
         x \in DOMAIN Classes[c].into
           \/ (~Classes[c].rebuilt /\ x \in Written(Classes[c]) \ Rewritten(Classes[c]))
  PROVE  <<c, x>> \in StickyForms
<1> DEFINE Of(d) == {<<d, y>> : y \in DOMAIN Classes[d].into
                           \cup IF Classes[d].rebuilt THEN {}
                                ELSE Written(Classes[d]) \ Rewritten(Classes[d])}
<1>1. <<c, x>> \in Of(c)
  OBVIOUS
<1>2. Of(c) \in {Of(d) : d \in DOMAIN Classes}
  OBVIOUS
<1>3. StickyForms = UNION {Of(d) : d \in DOMAIN Classes}
  BY DEF StickyForms
<1> QED
  BY <1>1, <1>2, <1>3

-------------------------------------------------------------------------------
\* A body made from arguments: what the last call wrote over a body that is empty, or
\* that of earlier calls where the class does not make it anew.
Writes ==
  LET c == Classes[class] IN
  /\ class \in DOMAIN Classes
  /\ held \subseteq DOMAIN c.into
  /\ source = "args" => document = {} /\ DOMAIN res \subseteq Written(c) \cup DOMAIN c.into
  /\ Made =>
       \E old : \E h \in SUBSET DOMAIN c.into, new \in BOOLEAN :
         /\ res = Over(old, Body(c, args, h, new))
         /\ DOMAIN old \subseteq Written(c) \cup DOMAIN c.into
         /\ c.rebuilt => old = NoArguments

LEMMA BodyDomain ==
  ASSUME NEW c, NEW a, NEW h \in SUBSET DOMAIN c.into, NEW new \in BOOLEAN
  PROVE  /\ DOMAIN Body(c, a, h, new) \subseteq Written(c) \cup DOMAIN c.into
         /\ \A x \in DOMAIN Body(c, a, h, new) : x \notin DOMAIN c.into =>
              x \in Sent(c, a) /\ Body(c, a, h, new)[x] = Value(c, a, {}, x)
         /\ \A x \in Rewritten(c) : x \in DOMAIN Body(c, a, h, new)
<1> DEFINE old == h \cap Aliased(c, a)
           own == Sent(c, a) \ (c.fixed \cup IF new THEN {} ELSE c.base)
<1>1. Body(c, a, h, new) = [x \in own \cup old |-> Value(c, a, old, x)]
  BY DEF Body, Entries
<1>2. own \subseteq Sent(c, a) /\ Sent(c, a) \subseteq Written(c) /\ old \subseteq DOMAIN c.into
  BY DEF Sent
<1>3. ASSUME NEW x, x \notin DOMAIN c.into
      PROVE  Value(c, a, old, x) = Value(c, a, {}, x)
  BY <1>2, <1>3 DEF Value
<1>4. ASSUME NEW x \in Rewritten(c) PROVE x \in own
  <2>1. x \in c.always /\ x \notin c.fixed \cup c.base
    BY DEF Rewritten
  <2>2. Placed(c, a, x) /\ x \in Written(c)
    BY <2>1 DEF Placed, Wanted, Under, Rewritten, Written
  <2>3. \A y : x \notin Under(c.overwrites, y)
    BY DEF Under, Rewritten
  <2> QED
    BY <2>1, <2>2, <2>3 DEF Sent
<1> QED
  BY <1>1, <1>2, <1>3, <1>4

\* A call of to_dict leaves what was written by it, and by those before it.
LEMMA ToDictWrites == ASSUME WellFormed, Writes, ToDict PROVE Writes'
<1> DEFINE c == Classes[class]
           base == BaseBody(c, document, res, source)
           h == Holding(c, args, held)
           new == source = "args" /\ Based
<1>1. /\ class' = class /\ source' = source /\ args' = args /\ class \in DOMAIN Classes
      /\ held' = h \/ held' = held
  BY DEF ToDict, Return, Writes
<1>2. h \in SUBSET DOMAIN c.into /\ held \subseteq DOMAIN c.into
  BY DEF Holding, Aliased, Writes
<1>3. ASSUME source = "args"
      PROVE  /\ document' = {}
             /\ res' = Over(base, Body(c, args, h, new))
             /\ DOMAIN base \subseteq Written(c) \cup DOMAIN c.into
             /\ c.rebuilt => base = NoArguments
  <2>1. document = {} /\ DOMAIN res \subseteq Written(c) \cup DOMAIN c.into
    BY <1>3 DEF Writes
  <2>2. document' = document
    BY <1>3 DEF ToDict, Begins, Base
  <2>3. res' = Over(base, Body(c, args, h, new))
    BY <1>1, <1>3 DEF ToDict, Return, Builds, WellFormed
  <2>4. base = NoArguments \/ base = res
    BY DEF BaseBody
  <2>5. DOMAIN NoArguments = {}
    BY DEF NoArguments
  <2>6. c.rebuilt => base = NoArguments
    BY <1>3 DEF BaseBody, Bases
  <2> QED
    BY <2>1, <2>2, <2>3, <2>4, <2>5, <2>6
<1>4. ASSUME source = "args" PROVE DOMAIN res' \subseteq Written(c) \cup DOMAIN c.into
  <2>1. DOMAIN Body(c, args, h, new) \subseteq Written(c) \cup DOMAIN c.into
    BY <1>2, BodyDomain
  <2> QED
    BY <1>3, <1>4, <2>1 DEF Over
<1>5. Made' => source = "args"
  BY <1>1 DEF Made
<1> HIDE DEF h, base, new
<1>6. new \in BOOLEAN
  BY DEF new
<1>7. Made' => \E old : \E g \in SUBSET DOMAIN c.into, n \in BOOLEAN :
                 /\ res' = Over(old, Body(c, args, g, n))
                 /\ DOMAIN old \subseteq Written(c) \cup DOMAIN c.into
                 /\ c.rebuilt => old = NoArguments
  BY <1>2, <1>3, <1>5, <1>6
<1> QED
  BY <1>1, <1>2, <1>3, <1>4, <1>7 DEF Writes

LEMMA WritesInductive == ASSUME WellFormed PROVE Spec => []Writes
<1>1. Init => Writes
  <2> SUFFICES ASSUME Init PROVE Writes
    OBVIOUS
  <2>1. held \subseteq DOMAIN Classes[class].into
    BY DEF Init, Aliased
  <2>2. DOMAIN res = {}
    BY DEF Init, NoArguments
  <2>3. ~Made /\ class \in DOMAIN Classes /\ (source = "args" => document = {})
    BY DEF Init, Made
  <2> QED
    BY <2>1, <2>2, <2>3 DEF Writes
<1>2. Writes /\ [Next]_vars => Writes'
  <2> SUFFICES ASSUME Writes, [Next]_vars PROVE Writes'
    OBVIOUS
  <2>1. ASSUME ToDictNoNamespace \/ ToDictMissing \/ ToDictExclusive \/ ToDictBroken
        PROVE  Writes'
    <3>1. /\ class' = class /\ source' = source /\ held' = held /\ ~Made'
          /\ source = "args" => document' = document
          /\ res' = res \/ res' = NoArguments
      BY <2>1 DEF ToDictNoNamespace, ToDictMissing, ToDictExclusive, ToDictBroken, Return,
                  Begins, Base, BaseBody, Made
    <3>2. DOMAIN NoArguments = {}
      BY DEF NoArguments
    <3> QED
      BY <3>1, <3>2 DEF Writes
  <2>2. CASE ToDict
    BY <2>2, ToDictWrites
  <2>3. CASE Assign
    <3>1. /\ class' = class /\ source' = source /\ res' = res /\ document' = document
          /\ held' \subseteq held /\ ~Made'
      BY <2>3 DEF Assign, Made
    <3> QED
      BY <3>1 DEF Writes
  <2>4. CASE UNCHANGED vars
    BY <2>4 DEF vars, Writes, Made
  <2> QED
    BY <2>1, <2>2, <2>3, <2>4 DEF Next
<1> QED
  BY <1>1, <1>2, PTL DEF Spec

\* A body made again after an assignment is that of the attributes as they are, whatever
\* the calls and assignments before, but for arguments of the forms in StickyForms.
THEOREM BodiesAreCurrent ==
  ASSUME WellFormed, StickyForms \subseteq Stale PROVE Spec => []BodyIsCurrent
<1>1. Writes => BodyIsCurrent
  <2> SUFFICES ASSUME Writes, Made, NEW x \in DOMAIN res, <<class, x>> \notin Stale
               PROVE  /\ \/ res[x] = args[x]
                         \/ ~Truthy(args[x]) /\ x \in DOMAIN Classes[class].filled
                      /\ res[x] = "none" => x \in Classes[class].always
    BY DEF BodyIsCurrent
  <2> DEFINE c == Classes[class]
  <2>1. PICK old, h, new :
          /\ h \in SUBSET DOMAIN c.into /\ new \in BOOLEAN
          /\ res = Over(old, Body(c, args, h, new))
          /\ DOMAIN old \subseteq Written(c) \cup DOMAIN c.into
          /\ c.rebuilt => old = NoArguments
    BY DEF Writes
  <2> DEFINE b == Body(c, args, h, new)
  <2>2. x \notin DOMAIN c.into /\ (c.rebuilt \/ x \notin Written(c) \ Rewritten(c))
    BY StickyOfClass DEF Writes
  <2>3. x \in DOMAIN b
    <3>1. CASE c.rebuilt
      BY <2>1, <3>1 DEF Over, NoArguments
    <3>2. CASE ~c.rebuilt
      <4>1. x \in DOMAIN old \/ x \in DOMAIN b
        BY <2>1 DEF Over
      <4>2. x \in DOMAIN old => x \in Rewritten(c)
        BY <2>1, <2>2, <3>2
      <4> QED
        BY <2>1, <4>1, <4>2, BodyDomain
    <3> QED
      BY <3>1, <3>2
  <2>4. x \in Sent(c, args) /\ b[x] = Value(c, args, {}, x)
    BY <2>1, <2>2, <2>3, BodyDomain
  <2>5. res[x] = b[x]
    BY <2>1, <2>3 DEF Over
  <2>6. res[x] = args[x] \/ (~Truthy(args[x]) /\ x \in DOMAIN c.filled)
    BY <2>4, <2>5 DEF Value
  <2>7. Wanted(c, args, x)
    BY <2>4 DEF Sent, Placed
  <2>8. args[x] = "none" => x \in c.always
    BY <2>7 DEF Wanted, Truthy
  <2> QED
    BY <2>4, <2>5, <2>6, <2>8 DEF Value, WellFormed, Writes
<1> QED
  BY <1>1, WritesInductive, PTL

-------------------------------------------------------------------------------
LEMMA MeddlingOfClass ==
  ASSUME NEW c \in DOMAIN Classes, NEW src \in Classes[c].sources \ {"args"},
         src \in Classes[c].checked \cup Classes[c].built \/ ~Classes[c].rebuilt
  PROVE  <<c, src>> \in MeddlingForms
<1> DEFINE Of(d) == {<<d, s>> : s \in {s \in Classes[d].sources \ {"args"} :
                          \/ s \in Classes[d].checked \cup Classes[d].built
                          \/ ~Classes[d].rebuilt}}
<1>1. <<c, src>> \in Of(c)
  OBVIOUS
<1>2. Of(c) \in {Of(d) : d \in DOMAIN Classes}
  OBVIOUS
<1>3. MeddlingForms = UNION {Of(d) : d \in DOMAIN Classes}
  BY DEF MeddlingForms
<1> QED
  BY <1>1, <1>2, <1>3

\* The document in the body is the caller's, and the namespace is that of the document
\* once to_dict has read it.
Untouched ==
  /\ class \in DOMAIN Classes /\ source \in Classes[class].sources
  /\ namespace = "document" => "namespace" \in given
  /\ source = "kind_dict" => document = given
  /\ DocumentIsSent

\* An object of a class that leaves documents alone: what a call of to_dict does.
LEMMA OnlyBased ==
  ASSUME WellFormed, MeddlingForms \subseteq Altering, Untouched, Next,
         source # "args", <<class, source>> \notin Altering
  PROVE  /\ ~ToDictMissing /\ ~ToDictExclusive /\ ~ToDictBroken
         /\ Based
         /\ source \in {"kind_dict", "yaml_file"}
         /\ BaseBody(Classes[class], document, res, source) = NoArguments
         /\ ToDict => outcome' = "made" /\ res' = NoArguments /\ Begins
<1>1. ~Checks(Classes[class], source) /\ ~Builds(Classes[class], source) /\ Classes[class].rebuilt
  BY MeddlingOfClass DEF Untouched, Checks, Builds
<1>2. Based
  BY <1>1 DEF Based, Bases
<1>3. source \in {"kind_dict", "yaml_file"}
  BY DEF Untouched, WellFormed, Sources
<1>4. BaseBody(Classes[class], document, res, source) = NoArguments
  BY DEF Untouched, DocumentIsSent, BaseBody
<1>5. ~ToDictMissing /\ ~ToDictExclusive /\ ~ToDictBroken
  BY <1>1 DEF ToDictMissing, ToDictExclusive, ToDictBroken, Refuses
<1>6. ToDict => outcome' = "made" /\ res' = NoArguments /\ Begins
  BY <1>1, <1>4 DEF ToDict, Return
<1> QED
  BY <1>2, <1>3, <1>4, <1>5, <1>6

\* Objects made from kind_dict or yaml_file send that document, to its namespace, and
\* to_dict raises only for want of a namespace: for any table, and all classes and
\* sources but those of the forms in MeddlingForms.
THEOREM DocumentsAreSent ==
  ASSUME WellFormed, MeddlingForms \subseteq Altering PROVE Spec => []DocumentIsSent
<1>1. Init => Untouched
  BY DEF Init, Untouched, DocumentIsSent
<1>2. Untouched /\ [Next]_vars => Untouched'
  <2> SUFFICES ASSUME Untouched, [Next]_vars PROVE Untouched'
    OBVIOUS
  <2>1. CASE UNCHANGED vars
    BY <2>1 DEF vars, Untouched, DocumentIsSent
  <2>2. CASE Assign
    BY <2>2 DEF Assign, Untouched, DocumentIsSent
  <2>3. ASSUME Next, ~Assign PROVE Untouched'
    <3>1. class' = class /\ source' = source /\ given' = given
      BY <2>3 DEF Next, ToDictNoNamespace, ToDictMissing, ToDictExclusive, ToDictBroken,
                  ToDict, Return
    <3>2. Base \/ UNCHANGED <<namespace, document>>
      BY <2>3 DEF Next, ToDictNoNamespace, ToDictMissing, ToDictExclusive, ToDictBroken,
                  ToDict, Begins
    <3>3. /\ namespace' = "document" => "namespace" \in given'
          /\ source' = "kind_dict" => document' = given'
      BY <3>1, <3>2 DEF Base, Home, Untouched
    <3>4. ASSUME source # "args", <<class, source>> \notin Altering
          PROVE  DocumentIsSent'
      <4>1. ToDictNoNamespace \/ ToDict
        BY <2>3, <3>4, OnlyBased DEF Next
      <4>2. CASE ToDictNoNamespace
        <5>1. /\ res' = NoArguments /\ outcome' = "no_namespace"
              /\ Classes[class].namespaced /\ "namespace" \notin given
          BY <2>3, <3>4, <4>2, OnlyBased DEF ToDictNoNamespace, Return, Homeless, Home
        <5> QED
          BY <3>1, <5>1 DEF DocumentIsSent
      <4>3. CASE ToDict
        <5>1. outcome' = "made" /\ res' = NoArguments /\ ~Homeless /\ Base /\ Based
          BY <2>3, <3>4, <4>3, OnlyBased DEF Begins
        <5>2. document' = IF source = "yaml_file" THEN given \ {"resourceVersion"} ELSE given
          BY <2>3, <3>4, <5>1, OnlyBased DEF Base, Untouched
        <5>3. /\ "namespace" \in given => namespace' = "document"
              /\ Classes[class].namespaced => namespace' # "none"
          BY <5>1 DEF Base, Home, Homeless
        <5> QED
          BY <3>1, <5>1, <5>2, <5>3 DEF DocumentIsSent
      <4> QED
        BY <4>1, <4>2, <4>3
    <3>5. DocumentIsSent'
      BY <3>1, <3>4 DEF DocumentIsSent
    <3> QED
      BY <3>1, <3>3, <3>5 DEF Untouched
  <2> QED
    BY <2>1, <2>2, <2>3
<1>3. Untouched => DocumentIsSent
  BY DEF Untouched
<1> QED
  BY <1>1, <1>2, <1>3, PTL DEF Spec
===============================================================================
