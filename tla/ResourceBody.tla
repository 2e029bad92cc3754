----------------------------- MODULE ResourceBody -----------------------------
(***************************************************************************)
(* How a wrapper object makes the body it sends. A caller constructs an    *)
(* object of some class from arguments, from a dictionary (kind_dict) or   *)
(* from a file; to_dict makes self.res, once for every create or to_yaml,  *)
(* and the caller may assign to the object's attributes in between. What   *)
(* each class does is its entry in Classes.                                *)
(***************************************************************************)
EXTENDS ClassTable, Naturals

CONSTANTS
  Classes,   \* the table: a function from names of classes to their entries
  Lost,      \* <<class, argument>>: a given argument may be missing in the body
  Stale,     \* <<class, argument>>: the body may hold it as it was before
  Altering,  \* <<class, source>>: not only the document decides what is sent
  MaxCalls   \* calls of to_dict, at most

VARIABLES
  class,     \* the class of the object
  source,    \* what the body is made from: "args", "kind_dict" or "yaml_file"
  given,     \* the parts of the caller's document, {} for "args"
  args,      \* the object's attributes
  focus,     \* the attribute that the caller assigns to
  namespace, \* where the object has its namespace from
  document,  \* the parts of that document in self.res
  res,       \* what arguments have put into self.res
  held,      \* arguments written into the caller's own object
  outcome,   \* of the last to_dict, "changed" when attributes have changed since
  calls      \* number of calls of to_dict

vars == <<class, source, given, args, focus, namespace, document, res, held, outcome, calls>>

Sources == {"args", "kind_dict", "yaml_file"}
\* What to_dict or the cluster reads of a document; the rest of it is "content".
Parts == {"content", "namespace", "resourceVersion"}
Outcomes == {"none", "made", "no_namespace", "missing", "exclusive", "broken", "changed"}
NoArguments == <<>>

-------------------------------------------------------------------------------
\* What an entry says of a class.

Truthy(v) == v = "value"
Under(f, x) == IF x \in DOMAIN f THEN f[x] ELSE {}
Written(c) == c.always \cup c.ifTrue \cup c.ifGiven \cup c.base
Arguments(c) == Written(c) \cup c.ignored \cup UNION c.requires

\* The attribute that the constructor makes of an argument.
Attribute(c, x, v) == IF x \in DOMAIN c.defaults /\ ~Truthy(v) THEN c.defaults[x] ELSE v

\* The tests of to_dict.
Satisfied(c, a, clause) ==
  \E x \in clause : IF x \in c.noneOnly THEN a[x] # "none" ELSE Truthy(a[x])
Missing(c, a) == \E clause \in c.requires : ~Satisfied(c, a, clause)
Clash(c, a) == \E group \in c.exclusive : \A x \in group : Truthy(a[x])

\* The condition an argument is written under, and the conditions around it.
Wanted(c, a, x) ==
  \/ x \in c.always
  \/ x \in c.ifTrue \cup c.base /\ Truthy(a[x])
  \/ x \in c.ifGiven /\ a[x] # "none"
Placed(c, a, x) ==
  /\ Wanted(c, a, x)
  /\ \A y \in Under(c.inside, x) : Truthy(a[y])
  /\ \A y \in Under(c.unless, x) : ~Truthy(a[y])

\* A section that nothing has created: self.res["spec"][...] raises KeyError.
Broken(c, a) ==
  \E x \in DOMAIN c.breaks : Placed(c, a, x) /\ \A y \in c.breaks[x] : ~Placed(c, a, y)

Sent(c, a) ==
  LET placed == {x \in Written(c) : Placed(c, a, x)}
  IN  {x \in placed : \A y \in placed : x \notin Under(c.overwrites, y)}

\* The caller's object for another argument, sent as it is, takes in what is written to
\* it, and keeps what an earlier call, or the constructor, wrote.
Aliased(c, a) == {x \in DOMAIN c.into : Truthy(a[c.into[x]])}
Holding(c, a, h) == h \cup {x \in Aliased(c, a) \ c.fixed : Placed(c, a, x)}

\* What to_dict writes of an attribute: an object holds only what was true.
Value(c, a, h, x) ==
  IF x \in h THEN "value"
  ELSE IF x \in DOMAIN c.filled /\ ~Truthy(a[x]) THEN c.filled[x] ELSE a[x]

\* The entries that to_dict writes, with h in the caller's object; those of _base_body
\* only into a new dictionary.
Entries(c, a, h, base) ==
  LET old == h \cap Aliased(c, a)
      own == Sent(c, a) \ (c.fixed \cup IF base THEN {} ELSE c.base)
  IN  [x \in own \cup old |-> Value(c, a, old, x)]

\* Bug: the arguments of Resource are not in the body.
BodyWithoutBase(c, a, h, new) == Entries(c, a, h, FALSE)

Body(c, a, h, new) == Entries(c, a, h, new)

\* Does to_dict call that of NamespacedResource, and so _base_body?
Bases(c, d, r) == c.rebuilt \/ (d = {} /\ r = NoArguments)

\* Bug: the dictionary is only made once and then written to again.
BaseBodyOnce(c, d, r, src) == r

\* The arguments in the body that to_dict starts from. Resource._base_body takes
\* kind_dict as it is and loads the file anew, and makes a new dictionary otherwise.
BaseBody(c, d, r, src) ==
  IF src # "kind_dict" /\ Bases(c, d, r) THEN NoArguments ELSE r

\* Bug: the logic runs whatever the object was made from.
BuildsAlways(c, src) == TRUE

\* What a class does with a body made from something else than its arguments.
Checks(c, src) == src \in c.checked
Builds(c, src) == src \in c.built

\* The entries of the new body over those that were there.
Over(r, b) == [x \in DOMAIN r \cup DOMAIN b |-> IF x \in DOMAIN b THEN b[x] ELSE r[x]]

-------------------------------------------------------------------------------
\* The constructor: NamespacedResource raises without a namespace unless there is a
\* document, and Plan writes its hooks into the caller's virtual machines. One argument
\* differs from the others, where arguments matter.
Init ==
  /\ class \in DOMAIN Classes
  /\ source \in Classes[class].sources
  /\ IF source = "args"
     THEN given = {}
     ELSE \E parts \in SUBSET (Parts \ {"content"}) : given = {"content"} \cup parts
  /\ \E others \in Values, v \in Values :
       LET c == Classes[class] IN
       /\ source # "args" => v = others
       /\ focus \in Arguments(c)
       /\ args = [x \in Arguments(c) |-> Attribute(c, x, IF x = focus THEN v ELSE others)]
  /\ namespace \in {"none", "argument"}
  /\ source = "args" => namespace = "argument"
  /\ document = IF source = "kind_dict" THEN given ELSE {}
  /\ res = NoArguments
  /\ held = LET c == Classes[class]
            IN  {x \in Aliased(c, args) \cap c.fixed : Placed(c, args, x)}
  /\ outcome = "none"
  /\ calls = 0

Ready == calls < MaxCalls

\* The beginning of to_dict, that of NamespacedResource, where the class calls it: a file
\* is loaded without its resourceVersion, and the namespace is that of the document.
Based == Bases(Classes[class], document, res)
Home ==
  IF Based /\ "namespace" \in given THEN "document" ELSE namespace
Base ==
  /\ namespace' = Home
  /\ document' = IF Based /\ source = "yaml_file" THEN given \ {"resourceVersion"} ELSE document

\* NamespacedResource._base_body raises: there is no namespace, in the document or given.
Homeless == Classes[class].namespaced /\ Based /\ Home = "none"

\* A class tests its arguments after that, or (Role) before it.
Refuses == Checks(Classes[class], source) /\ Missing(Classes[class], args)
Begins == ~Homeless /\ Base

Return(o, r, h) ==
  /\ outcome' = o
  /\ res' = r
  /\ held' = h
  /\ calls' = calls + 1
  /\ UNCHANGED <<class, source, given, args, focus>>

\* to_dict raises MissingRequiredArgumentError for the namespace.
ToDictNoNamespace ==
  LET c == Classes[class] IN
  /\ Ready
  /\ Homeless /\ (Refuses => c.rebuilt)
  /\ Base
  /\ Return("no_namespace", BaseBody(c, document, res, source), held)

\* to_dict raises MissingRequiredArgumentError for an argument.
ToDictMissing ==
  LET c == Classes[class] IN
  /\ Ready
  /\ Refuses
  /\ IF c.rebuilt
     THEN Begins /\ Return("missing", BaseBody(c, document, res, source), held)
     ELSE Return("missing", res, held) /\ UNCHANGED <<namespace, document>>

\* to_dict raises ValueError: two arguments of which only one may be given.
ToDictExclusive ==
  LET c == Classes[class] IN
  /\ Ready
  /\ Checks(c, source) /\ ~Refuses /\ Clash(c, args)
  /\ Begins
  /\ Return("exclusive", BaseBody(c, document, res, source), held)

\* to_dict raises KeyError.
ToDictBroken ==
  LET c == Classes[class] IN
  /\ Ready
  /\ Builds(c, source) /\ ~Missing(c, args) /\ ~Clash(c, args) /\ Broken(c, args)
  /\ Begins
  /\ Return("broken", BaseBody(c, document, res, source), held)

\* to_dict returns.
ToDict ==
  LET c == Classes[class]
      base == BaseBody(c, document, res, source)
      holding == Holding(c, args, held)
  IN
  /\ Ready
  /\ Checks(c, source) => ~Missing(c, args) /\ ~Clash(c, args)
  /\ Builds(c, source) => ~Broken(c, args)
  /\ Begins
  /\ IF Builds(c, source)
     THEN Return("made", Over(base, Body(c, args, holding, source = "args" /\ Based)), holding)
     ELSE Return("made", base, held)

\* The caller assigns to an attribute, before the first to_dict or between two.
Assign ==
  /\ outcome # "changed" /\ Ready
  /\ \E v \in Values \ {args[focus]} : args' = [args EXCEPT ![focus] = v]
  /\ held' = {x \in held : Classes[class].into[x] # focus}
  /\ outcome' = "changed"
  /\ UNCHANGED <<class, source, given, focus, namespace, document, res, calls>>

Next ==
  \/ ToDictNoNamespace \/ ToDictMissing \/ ToDictExclusive \/ ToDictBroken \/ ToDict
  \/ Assign
Spec == Init /\ [][Next]_vars

-------------------------------------------------------------------------------
\* The body was made from the arguments that the object has now.
Made == source = "args" /\ outcome = "made"

\* What a caller gave is in the body: whatever other arguments are given or not, and
\* whatever the body was before, to_dict drops nothing that was given but the arguments
\* listed in Lost, and those that say something of another one that is not given, or
\* given instead.
GivenIsSent ==
  Made => \A x \in Arguments(Classes[class]) :
            /\ <<class, x>> \notin Lost
            /\ Truthy(args[x])
            /\ \A y \in Under(Classes[class].inside, x) : Truthy(args[y])
            /\ \A y \in Under(Classes[class].unless, x) : ~Truthy(args[y])
            => x \in DOMAIN res /\ Truthy(res[x])

\* The body is that of the attributes as they are: a second to_dict, after the caller
\* assigned to an attribute, leaves nothing of the first one but what Stale lists.
BodyIsCurrent ==
  Made => \A x \in DOMAIN res :
            <<class, x>> \notin Stale =>
              /\ \/ res[x] = args[x]
                 \/ ~Truthy(args[x]) /\ x \in DOMAIN Classes[class].filled
              /\ res[x] = "none" => x \in Classes[class].always

\* An object made from a dictionary or a file sends that document to the document's
\* namespace: "logic in `to_dict` is bypassed" (resource.py:440). The class adds nothing,
\* and raises only for a namespaced document that no namespace is known of; a file, not
\* a dictionary, loses its resourceVersion. Altering lists the exceptions.
DocumentIsSent ==
  source # "args" /\ <<class, source>> \notin Altering =>
    /\ res = NoArguments
    /\ outcome \in {"none", "made", "no_namespace", "changed"}
    /\ outcome = "made" =>
         /\ document = IF source = "yaml_file" THEN given \ {"resourceVersion"} ELSE given
         /\ "namespace" \in given => namespace = "document"
         /\ Classes[class].namespaced => namespace # "none"
    /\ outcome = "no_namespace" => Classes[class].namespaced /\ "namespace" \notin given

-------------------------------------------------------------------------------
\* What the table says of where these exceptions come from.

\* Arguments that are not written, only written by the constructor, written over, or
\* written to the first body only.
LossyForms ==
  UNION {{<<c, x>> : x \in Classes[c].ignored \cup Classes[c].fixed
                           \cup UNION {Classes[c].overwrites[y] :
                                        y \in DOMAIN Classes[c].overwrites}
                           \cup IF Classes[c].rebuilt THEN {} ELSE Classes[c].base}
         : c \in DOMAIN Classes}

\* Arguments that every call writes.
Rewritten(c) ==
  {x \in c.always \ (c.base \cup c.fixed) :
     /\ x \notin DOMAIN c.inside \cup DOMAIN c.unless
     /\ \A y \in DOMAIN c.overwrites : x \notin c.overwrites[y]}

\* Arguments written into the caller's own object, or not by every call.
StickyForms ==
  UNION {{<<c, x>> : x \in DOMAIN Classes[c].into
                           \cup IF Classes[c].rebuilt THEN {}
                                ELSE Written(Classes[c]) \ Rewritten(Classes[c])}
         : c \in DOMAIN Classes}

\* Sources other than arguments for which a class tests or writes its arguments, or does
\* not always call NamespacedResource.to_dict.
MeddlingForms ==
  UNION {{<<c, src>> : src \in {s \in Classes[c].sources \ {"args"} :
                          \/ s \in Classes[c].checked \cup Classes[c].built
                          \/ ~Classes[c].rebuilt}}
         : c \in DOMAIN Classes}

\* Every class writes the arguments of an object made from arguments, and no default is
\* None.
WellFormed ==
  \A c \in DOMAIN Classes :
    /\ "args" \in Classes[c].built /\ Classes[c].sources \subseteq Sources
    /\ \A x \in DOMAIN Classes[c].filled : Classes[c].filled[x] # "none"
===============================================================================
