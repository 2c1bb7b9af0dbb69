--------------------------------- MODULE Forms ---------------------------------
(***************************************************************************)
(* What the forms of the client have in common.                            *)
(*                                                                         *)
(* For every kind of object the client has three pieces of code that must  *)
(* agree and are written apart: its type (lib/*Types.ts) says which fields *)
(* there are and what an unset one counts as; its parser (lib/*Parse.ts)   *)
(* where in the configuration each is read; its form (lib/*Form.ts) which  *)
(* fields the user may edit and where each is written.  A component puts   *)
(* them together.  Here each of them is a table from fields to what the    *)
(* code says of the field, and this module says what the tables mean.      *)
(*                                                                         *)
(* An entry of a list has the key "k" (an entry of a list in an entry      *)
(* "sub"); texts are the few that the forms treat differently.             *)
(***************************************************************************)
EXTENDS ConfigTree, FiniteSets, TLC

Blank == ""
Spaces == " "           \* what trim() makes blank
New == "new"
Padded == " new "       \* what trim() makes New
Old == "old"            \* what the configuration held at first
Theirs == "theirs"      \* what another administrator sets
Word == "word"          \* where a number is asked for, what is none
Zero == "0"             \* what Number() makes of Spaces

trim(text) == CASE text = Spaces -> Blank [] text = Padded -> New [] OTHER -> text

-----------------------------------------------------------------------------
(* Types: optional texts and numbers (with what stands for an unset one),  *)
(* flags, lists of texts, and whether a secret is set, which is all the    *)
(* client reads.                                                           *)

Kind(is, unset) == [is |-> is, unset |-> unset]
Texts(fields) == [f \in fields |-> Kind("text", Blank)]
TextsOr(unset) == [f \in DOMAIN unset |-> Kind("text", unset[f])]
Numerals(fields) == [f \in fields |-> Kind("number", Blank)]
NumeralsOr(unset) == [f \in DOMAIN unset |-> Kind("number", unset[f])]
Flags(fields) == [f \in fields |-> Kind("flag", FALSE)]
Lists(fields) == [f \in fields |-> Kind("list", {})]
Secrets(fields) == [f \in fields |-> Kind("has", FALSE)]

(* numberOrUndefined of a text that is there, and what then stands for an  *)
(* undefined number: Number() does not mind spaces.                        *)
numberOrUndefined(text, unset) ==
  CASE text = Word -> unset [] trim(text) = Blank -> Zero [] OTHER -> trim(text)

(* asString, numberOrUndefined, asStringArray, isFlagPresent and           *)
(* `child(...) !== undefined`.  A secret may be in one of several places.  *)
ReadField(kind, config, at, where) ==
  LET path == at \o where
      found == {n.val : n \in {m \in config : m.path = path}} \ {NoValue} IN
  CASE kind.is = "has" -> \E place \in where : Exists(config, at \o place)
    [] kind.is = "flag" -> Exists(config, at \o where)
    [] kind.is = "list" -> found
    [] kind.is \in {"text", "number"} ->
         IF found = {} THEN kind.unset
         ELSE LET text == CHOOSE text \in found : TRUE IN
              IF kind.is = "number" THEN numberOrUndefined(text, kind.unset) ELSE text

-----------------------------------------------------------------------------
(* Forms: a scalar is set to the trimmed text and deleted when that is     *)
(* blank (or set to a text of the form's own); a list of choices is deleted *)
(* as a whole when none is left; a secret starts blank and is only set.    *)
(* Some lists of entries set what was typed, as it was typed, when that is *)
(* not empty: their fields are raw.  A choice cannot be padded: where one  *)
(* is set as it is, it is a scalar here.                                   *)

Write(is, path, blank) == [is |-> is, path |-> path, blank |-> blank]
ScalarFields(paths) == [f \in DOMAIN paths |-> Write("scalar", paths[f], Blank)]
ScalarFieldsOr(paths, text) == [f \in DOMAIN paths |-> Write("scalar", paths[f], text)]
FlagFields(paths) == [f \in DOMAIN paths |-> Write("flag", paths[f], Blank)]
ListFields(paths) == [f \in DOMAIN paths |-> Write("list", paths[f], Blank)]
All == "all"
ChoiceFields(paths) == [f \in DOMAIN paths |-> Write("list", paths[f], All)]
SecretFields(paths) == [f \in DOMAIN paths |-> Write("secret", paths[f], Blank)]
RawFields(paths) == [f \in DOMAIN paths |-> Write("raw", paths[f], Blank)]
NoFields == [f \in {} |-> Write("flag", <<>>, Blank)]

SetOps(path, texts) == FoldSet(LAMBDA text, ops : Append(ops, SetOp(path, text)), <<>>, texts)
DeleteOps(path, texts) == FoldSet(LAMBDA text, ops : Append(ops, DeleteOp(path, text)), <<>>, texts)

(* A mistake one could make in multiValueDiffOps, and one in the forms'     *)
(* loops, for the mutants.                                                 *)
multiValueDiffOpsAdds(path, before, after) == SetOps(path, after \ before)

FieldToOpsUntrimmed(write, path, before, value) ==
  CASE write.is = "list" -> SetOps(path, value \ before)
    [] write.is = "flag" -> <<IF value THEN SetNode(path) ELSE DeleteNode(path)>>
    [] OTHER -> IF value = Blank THEN <<>> ELSE <<SetOp(path, value)>>

(* multiValueDiffOps: the values added, then the values removed.           *)
multiValueDiffOps(path, before, after) == SetOps(path, after \ before) \o DeleteOps(path, before \ after)

FieldToOps(write, path, before, value) ==
  CASE write.is = "list" -> IF write.blank = All /\ value = {} THEN <<DeleteNode(path)>> ELSE multiValueDiffOps(path, before, value)
    [] write.is = "flag" -> <<IF value THEN SetNode(path) ELSE DeleteNode(path)>>
    [] write.is = "scalar" ->
         <<IF trim(value) # Blank THEN SetOp(path, trim(value))
           ELSE IF write.blank # Blank THEN SetOp(path, write.blank) ELSE DeleteNode(path)>>
    [] write.is = "secret" -> IF trim(value) = Blank THEN <<>> ELSE <<SetOp(path, trim(value))>>
    [] write.is = "raw" -> IF value = Blank THEN <<>> ELSE <<SetOp(path, value)>>

-----------------------------------------------------------------------------
(* A component: the node `at` it edits, the three tables, the lists and    *)
(* flags it changes at once, without its form (chips), and how it is used: *)
(*   "settings"  a form that is always there                               *)
(*   "gated"     the same behind Enable and Disable buttons for `at`       *)
(*   "adds"      a list whose entries are added and removed                *)
(*   "edits"     an entry that is edited and removed                       *)
(*   "panels"    the same in a panel that stays open after a save          *)
(*   "items"     a list with one form to create and to edit an entry       *)
(* `gate`: the node that the Enable and Disable buttons set and delete;    *)
(* `marks`: creating an entry sets the node itself; `keeps`: the form      *)
(* starts again when its baseline changes (useBaselineState) or keeps what *)
(* it has (useState); `shows`: the field of the object behind a form       *)
(* field, where the names differ; `needs`: fields that must not be blank;  *)
(* `starts`: operations for the first entry below a new one, if the user   *)
(* fills that in too.                                                      *)

Form(at, type, reads, form) ==
  [at |-> at, gate |-> at, type |-> type, reads |-> reads, form |-> form, use |-> "settings", chips |-> NoFields,
   shows |-> NoFields, marks |-> FALSE, keeps |-> "baseline", needs |-> {}, starts |-> <<>>]

Gated(section) == [section EXCEPT !.use = "gated"]
GatedBy(node, section) == [Gated(section) EXCEPT !.gate = node]
Edits(section) == [section EXCEPT !.use = "edits", !.keeps = "values"]
Panels(section) == [Edits(section) EXCEPT !.use = "panels"]
Adds(section) == [section EXCEPT !.use = "adds", !.keeps = "values", !.marks = TRUE]
Items(section) == [section EXCEPT !.use = "items", !.keeps = "values", !.marks = TRUE]
WithChips(section, chips) == [section EXCEPT !.chips = chips]
Showing(section, shows) == [section EXCEPT !.shows = shows]
Needing(section, needs) == [section EXCEPT !.needs = needs]
Starting(section, ops) == [section EXCEPT !.starts = ops]
Unmarked(section) == [section EXCEPT !.marks = FALSE]
Remembering(section) == [section EXCEPT !.keeps = "values"]

(* KeyValuePairList: a list of entries with a value each.                  *)
KeyValuePairList(base) ==
  LET value == [value |-> <<"value">>]
      entry == Form(base \o <<"k">>, Texts({"value"}), value, ScalarFields(value))
  IN Needing(Unmarked(Adds(entry)), {"value"})

Parsed(p, config) == [f \in DOMAIN p.type |-> ReadField(p.type[f], config, p.at, p.reads[f])]

FieldShown(p, f) == IF f \in DOMAIN p.shows THEN p.shows[f] ELSE f

(* The values a form starts with; those of an absent object are blank.     *)
FormValues(p, config) ==
  [f \in DOMAIN p.form |-> IF p.form[f].is \in {"secret", "raw"} THEN Blank
                           ELSE LET g == FieldShown(p, f) IN ReadField(p.type[g], config, p.at, p.reads[g])]

(* The operations for the fields whose values changed.                     *)
ChangesToOps(p, before, values) ==
  FoldSet(LAMBDA f, ops : ops \o FieldToOps(p.form[f], p.at \o p.form[f].path, before[f], values[f]),
          <<>>, {f \in DOMAIN p.form : before[f] # values[f]})

OnlySets(ops) == FoldLeft(LAMBDA sets, op : IF op.op = "set" THEN Append(sets, op) ELSE sets, <<>>, ops)

(* The operations a form queues.  One that only adds does not delete.      *)
FormToOps(p, config, values) ==
  LET ops == ChangesToOps(p, FormValues(p, config), values) IN
  (IF p.marks /\ ~Exists(config, p.at) THEN <<SetNode(p.at)>> ELSE <<>>)
  \o (IF p.use = "adds" THEN OnlySets(ops) ELSE ops)

(* The leaves of the component that hold several values.                   *)
ListPaths(p) == {p.at \o p.reads[f] : f \in {g \in DOMAIN p.type : p.type[g].is = "list"}}

-----------------------------------------------------------------------------
(* What makes tables a component: they are about the same fields, a form   *)
(* field is of the kind of the field it shows, everything is written at or *)
(* below the node of the component, and at the node itself only where      *)
(* creating an entry sets it; the forms that create keep what they have.   *)

Path == Seq(STRING)
Place == Path \ {<<>>}    \* any but the root

(* The texts that the leaves of a component may hold, and NoValue: texts   *)
(* with spaces only if it has raw fields, a text that is no number and the *)
(* number 0 only if it has numbers.                                        *)
HasRaw(p) == \E f \in DOMAIN p.form : p.form[f].is = "raw"
HasNumbers(p) == \E f \in DOMAIN p.type : p.type[f].is = "number"

Leaves(p) ==
  {NoValue, New, Old, Theirs} \cup {p.form[f].blank : f \in DOMAIN p.form}
  \cup {p.type[f].unset : f \in {g \in DOMAIN p.type : p.type[g].is \in {"text", "number"}}}
  \cup (IF HasRaw(p) THEN {Spaces, Padded} ELSE {}) \cup (IF HasNumbers(p) THEN {Word, Zero} ELSE {})

WellFormedType(p) ==
  /\ IsFiniteSet(DOMAIN p.type) /\ DOMAIN p.reads = DOMAIN p.type
  /\ \A f \in DOMAIN p.type :
       /\ p.type[f].is \in {"text", "number", "flag", "list", "has"}
       /\ IF p.type[f].is = "has" THEN IsFiniteSet(p.reads[f]) /\ \A path \in p.reads[f] : path \in Path
                                  ELSE p.reads[f] \in Path

WellFormedForm(p) ==
  /\ IsFiniteSet(DOMAIN p.form)
  /\ \A f \in DOMAIN p.form :
       /\ FieldShown(p, f) \in DOMAIN p.type
       /\ LET shows == p.type[FieldShown(p, f)].is IN
            CASE p.form[f].is = "scalar" -> shows \in {"text", "number"}
              [] p.form[f].is = "secret" -> shows = "has"
              [] p.form[f].is = "raw" -> shows \in {"text", "number", "list"} /\ p.use = "adds"
              [] OTHER -> p.form[f].is \in {"flag", "list"} /\ shows = p.form[f].is
       /\ p.form[f].path \in Place

WellFormed(p) ==
  /\ p.at \in Place /\ p.gate \in Place
  /\ WellFormedType(p) /\ WellFormedForm(p)
  /\ \A f \in DOMAIN p.chips : f \in DOMAIN p.type /\ p.type[f].is \in {"list", "flag"} /\ p.chips[f] \in Place
  /\ p.marks => p.use \in {"adds", "items"}
  /\ p.use \in {"adds", "items"} => p.keeps = "values"
  /\ p.starts \in Seq([op : {"set"}, path : Place, val : Leaves(p)])
=============================================================================
