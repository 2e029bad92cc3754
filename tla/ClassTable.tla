------------------------------ MODULE ClassTable ------------------------------
(***************************************************************************)
(* The form of a class's entry: what its constructor and its to_dict say   *)
(* of the arguments. An argument is a name; a value is "none" (Python's    *)
(* None, or not given), "zero" (given, but false in a condition: 0, False, *)
(* "", {}) or "value" (anything else). The place in the body that an       *)
(* argument is written to, and the types, are left out.                    *)
(***************************************************************************)
EXTENDS FiniteSets

Values == {"none", "zero", "value"}

\* The fields of an entry:
\*   requires    clauses; one argument of each must be there, or to_dict raises
\*   noneOnly    arguments whose clause tests `is None` instead of truth
\*   exclusive   sets of arguments that may not be given together
\*   always      arguments that are written without a condition
\*   ifTrue      arguments written under `if self.x:`
\*   ifGiven     arguments written under `if self.x is not None:`
\*   defaults    what the constructor keeps for an argument that is not true
\*   filled      what to_dict writes for an argument that is not true
\*   inside      arguments written only within the `if` of others
\*   unless      arguments written in the `else` of others
\*   overwrites  arguments written over the place of others
\*   breaks      arguments written into a section that others have to create
\*   ignored     arguments that are accepted and not written
\*   fixed       arguments that only the constructor reads
\*   into        arguments written into the caller's own object for another argument
\*   base        arguments of Resource that the class passes on, written by _base_body
\*   namespaced  the class is a NamespacedResource
\*   sources     what an object of the class can be made from
\*   checked     sources of the body for which the requirements are tested
\*   built       sources of the body for which the arguments are written
\*   rebuilt     FALSE where to_dict tests the requirements first and then calls the
\*               to_dict of NamespacedResource only if there is no body yet
Plain == [requires |-> {}, noneOnly |-> {}, exclusive |-> {}, always |-> {}, ifTrue |-> {},
          ifGiven |-> {}, defaults |-> <<>>, filled |-> <<>>, inside |-> <<>>,
          unless |-> <<>>, overwrites |-> <<>>, breaks |-> <<>>, ignored |-> {},
          fixed |-> {}, into |-> <<>>, base |-> {"label", "annotations"},
          namespaced |-> TRUE, sources |-> {"args", "kind_dict", "yaml_file"},
          checked |-> {"args"}, built |-> {"args"}, rebuilt |-> TRUE]

\* Each of these names is required for itself.
Each(names) == {{x} : x \in names}

\* The usual beginning of a to_dict: every required argument is tested, then written.
Requiring(names) == [Plain EXCEPT !.requires = Each(names), !.always = names]
===============================================================================
