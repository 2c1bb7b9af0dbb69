--------------------------- MODULE ConfigPagesProofs ---------------------------
(***************************************************************************)
(* What TLAPS proves about ConfigPages, for any number of components with  *)
(* well-formed tables and every bound: type correctness, that a page       *)
(* queues only what the user touched, and that its Enable and Disable      *)
(* buttons tell the truth.                                                 *)
(***************************************************************************)
EXTENDS ConfigPages, ConfigTreeProofs

(* A form that is open holds a value of the right kind for each field. *)
FormState(state) ==
  /\ state = [open |-> state.open, edits |-> state.edits, values |-> state.values, typed |-> state.typed]
  /\ state.open \in BOOLEAN /\ state.edits \in BOOLEAN
  /\ state.open => /\ state.values = [f \in DOMAIN p.form |-> state.values[f]]
                   /\ \A f \in DOMAIN p.form : state.values[f] \in FieldValues(p.form[f], Leaves(p))
                   /\ state.typed \subseteq DOMAIN p.form

Bounds == [gestures : Nat, commits : Nat, changes : Nat]

(* The type invariant, with the texts of the component as the values. *)
TypeInv ==
  /\ \E i \in DOMAIN Pages : p = Pages[i]
  /\ config \in Configs(Leaves(p)) /\ shown \in Configs(Leaves(p))
  /\ queue \in Seq(OpsAt(Place, Leaves(p)))
  /\ FormState(form)
  /\ DOMAIN asked \subseteq DOMAIN p.type
  /\ touched \subseteq Path
  /\ bound \in Bounds

(* The component is one of those assumed well-formed. *)
LEMMA PageIsWellFormed ==
  ASSUME \E i \in DOMAIN Pages : p = Pages[i]
  PROVE  WellFormed(p)
BY PagesAssumption

(* A finite set has finite images. *)
LEMMA ImageIsFinite ==
  ASSUME NEW S, IsFiniteSet(S), NEW g, NEW T, \A t \in T : \E x \in S : t = g[x]
  PROVE  IsFiniteSet(T)
<1> DEFINE U == {g[x] : x \in S}
           h == [x \in S |-> g[x]]
<1>1. h \in Surjection(S, U)
  BY DEF Surjection
<1>2. T \in SUBSET U
  OBVIOUS
<1> HIDE DEF h, U
<1> QED
  BY <1>1, <1>2, FS_Surjection, FS_Subset

(* A path of one step. *)
LEMMA OneStep ==
  ASSUME NEW S, NEW x \in S
  PROVE  <<x>> \in Seq(S)
OBVIOUS

(* Where the component reads and writes. *)
LEMMA PathsOf ==
  ASSUME WellFormed(p)
  PROVE  /\ p.at \in Path /\ p.at \in Place /\ p.gate \in Path /\ p.gate \in Place
         /\ \A f \in DOMAIN p.form : p.at \o p.form[f].path \in Place
         /\ \A f \in DOMAIN p.chips : p.at \o p.chips[f] \in Place
         /\ \A q \in Path : p.at \o q \in Path
<1>1. p.at \in Path /\ p.at # <<>>
  BY DEF WellFormed, Place
<1>2. \A q \in Path : p.at \o q \in Path /\ p.at \o q # <<>>
  BY <1>1, ConcatProperties, ConcatEqualIffEmpty DEF Path
<1> QED
  BY <1>1, <1>2 DEF WellFormed, WellFormedForm, Place

(* What the other administrator fills in is a configuration. *)
LEMMA FilledType ==
  ASSUME WellFormed(p), NEW text \in {Old, Theirs}
  PROVE  {Elsewhere} \cup Filled(p, text) \in Configs(Leaves(p))
<1> DEFINE at == [f \in DOMAIN p.type |->
                    CASE p.type[f].is = "flag" -> {Node(p.at \o p.reads[f], NoValue)}
                      [] p.type[f].is = "has" -> {Node(p.at \o path, text) : path \in p.reads[f]}
                      [] OTHER -> {Node(p.at \o p.reads[f], text)}]
           all == {at[f] : f \in DOMAIN p.type}
           own == {Node(p.at, NoValue), Node(p.at \o <<"else">>, Old)}
<1>0. p.at \in Path /\ \A q \in Path : p.at \o q \in Path
  BY PathsOf
<1>1. Filled(p, text) = (UNION all) \cup own
  BY Zenon DEF Filled
<1>2. {NoValue, Old, text} \subseteq Leaves(p)
  BY DEF Leaves
<1>3. \A path \in Path, val \in Leaves(p) : Node(path, val) \in Nodes(Leaves(p))
  BY DEF Node, Nodes
<1>4. own \subseteq Nodes(Leaves(p)) /\ IsFiniteSet(own)
  <2>1. <<"else">> \in Path
    BY OneStep, StringsAssumption DEF Path
  <2>2. own \subseteq Nodes(Leaves(p))
    BY <1>0, <1>2, <1>3, <2>1
  <2>3. IsFiniteSet(own)
    <3>1. \A a, b : IsFiniteSet({a, b})
      <4> SUFFICES ASSUME NEW a, NEW b PROVE IsFiniteSet({a, b})
        OBVIOUS
      <4>1. IsFiniteSet({a}) /\ {a, b} = {a} \cup {b}
        BY FS_Singleton
      <4> QED
        BY <4>1, FS_AddElement
    <3> QED
      BY <3>1, Zenon
  <2> QED
    BY <2>2, <2>3
<1>5. ASSUME NEW f \in DOMAIN p.type
      PROVE  at[f] \subseteq Nodes(Leaves(p)) /\ IsFiniteSet(at[f])
  <2>1. CASE p.type[f].is = "has"
    <3> DEFINE g == [path \in p.reads[f] |-> Node(p.at \o path, text)]
    <3>1. at[f] = {Node(p.at \o path, text) : path \in p.reads[f]}
      BY <2>1
    <3>2. IsFiniteSet(p.reads[f]) /\ p.reads[f] \subseteq Path
      BY <2>1 DEF WellFormed, WellFormedType
    <3>3. at[f] \subseteq Nodes(Leaves(p))
      BY <1>0, <1>2, <1>3, <3>1, <3>2
    <3>5. \A t \in at[f] : \E path \in p.reads[f] : t = g[path]
      BY <3>1
    <3> HIDE DEF g, at
    <3>4. IsFiniteSet(at[f])
      BY <3>2, <3>5, ImageIsFinite
    <3> QED
      BY <3>3, <3>4
  <2>2. CASE p.type[f].is # "has"
    <3> DEFINE val == IF p.type[f].is = "flag" THEN NoValue ELSE text
    <3>1. at[f] = {Node(p.at \o p.reads[f], val)}
      BY <2>2
    <3>2. p.reads[f] \in Path
      BY <2>2 DEF WellFormed, WellFormedType
    <3>3. at[f] \subseteq Nodes(Leaves(p))
      BY <1>0, <1>2, <1>3, <3>1, <3>2
    <3> HIDE DEF val
    <3>4. IsFiniteSet(at[f])
      BY <3>1, FS_Singleton
    <3> QED
      BY <3>3, <3>4
  <2> QED
    BY <2>1, <2>2
<1> HIDE DEF at
<1>6. UNION all \subseteq Nodes(Leaves(p)) /\ IsFiniteSet(UNION all)
  <2>1. IsFiniteSet(all)
    BY ImageIsFinite DEF WellFormed, WellFormedType
  <2>2. \A T \in all : T \subseteq Nodes(Leaves(p)) /\ IsFiniteSet(T)
    BY <1>5
  <2> HIDE DEF all
  <2> QED
    BY <2>1, <2>2, FS_UNION
<1>7. Elsewhere \in Nodes(Leaves(p))
  <2>1. <<"elsewhere">> \in Path
    BY OneStep, StringsAssumption DEF Path
  <2> QED
    BY <1>2, <1>3, <2>1 DEF Elsewhere
<1>8. IsFiniteSet((UNION all) \cup own)
  <2>1. IsFiniteSet(UNION all) /\ IsFiniteSet(own)
    BY <1>4, <1>6
  <2>2. \A S, T : IsFiniteSet(S) /\ IsFiniteSet(T) => IsFiniteSet(S \cup T)
    BY FS_Union
  <2> HIDE DEF all, own
  <2> QED
    BY <2>1, <2>2, Zenon
<1>9. IsFiniteSet({Elsewhere} \cup Filled(p, text))
  <2>1. {Elsewhere} \cup Filled(p, text) = ((UNION all) \cup own) \cup {Elsewhere}
    BY <1>1
  <2> HIDE DEF all, own
  <2> QED
    BY <1>8, <2>1, FS_AddElement
<1>10. {Elsewhere} \cup Filled(p, text) \subseteq Nodes(Leaves(p))
  <2>1. own \subseteq Nodes(Leaves(p)) /\ UNION all \subseteq Nodes(Leaves(p))
    BY <1>4, <1>6
  <2> HIDE DEF all, own
  <2>2. ((UNION all) \cup own) \subseteq Nodes(Leaves(p))
    BY <2>1
  <2>3. Filled(p, text) \subseteq Nodes(Leaves(p))
    BY <1>1, <2>2, Zenon
  <2> QED
    BY <1>7, <2>3
<1> QED
  BY <1>9, <1>10 DEF Configs

-----------------------------------------------------------------------------
(* The forms there are. *)
LEMMA FreshState ==
  ASSUME WellFormed(p), NEW config_ \in Configs(Leaves(p)), NEW edits \in BOOLEAN
  PROVE  FormState(Fresh(FormValues(p, config_), edits))
<1> DEFINE values == FormValues(p, config_)
<1>1. \A f \in DOMAIN p.form : values[f] \in FieldValues(p.form[f], Leaves(p))
  BY FormValuesType
<1>2. values = [f \in DOMAIN p.form |-> values[f]]
  BY DEF FormValues
<1> HIDE DEF values
<1>3. FormState(Fresh(values, edits))
  BY <1>1, <1>2 DEF FormState, Fresh
<1> QED
  BY <1>3 DEF values

LEMMA ClosedState == FormState(Closed)
BY DEF FormState, Closed

LEMMA NothingIsConfig == {} \in Configs(Leaves(p))
BY FS_EmptySet DEF Configs

(* The three outcomes of rendering. *)
LEMMA RenderedIs ==
  ASSUME NEW shown_, NEW queue_
  PROVE  LET there == CASE p.use = "settings" -> TRUE
                        [] p.use = "gated" -> EnabledAfter(shown_, queue_)
                        [] OTHER -> form.open /\ (form.edits => Exists(shown_, p.at))
         IN \/ Rendered(shown_, queue_) = Closed /\ ~there
            \/ Rendered(shown_, queue_) = Fresh(FormValues(p, shown_), TRUE) /\ there
            \/ Rendered(shown_, queue_) = form /\ there /\ form.open
               /\ ~(p.keeps = "baseline" /\ FormValues(p, shown_) # FormValues(p, shown))
BY DEF Rendered

(* A rendered form is a form. *)
LEMMA RenderedState ==
  ASSUME WellFormed(p), FormState(form), NEW shown_ \in Configs(Leaves(p)), NEW queue_
  PROVE  FormState(Rendered(shown_, queue_))
BY FreshState, ClosedState, RenderedIs

LEMMA InitTypeInv == Init => TypeInv
<1> SUFFICES ASSUME Init PROVE TypeInv
  OBVIOUS
<1>1. \E i \in DOMAIN Pages : p = Pages[i]
  BY DEF Init
<1>2. WellFormed(p)
  BY <1>1, PageIsWellFormed
<1>3. {Elsewhere} \in Configs(Leaves(p)) /\ ({Elsewhere} \cup Filled(p, Old)) \in Configs(Leaves(p))
  <2>1. ({Elsewhere} \cup Filled(p, Old)) \in Configs(Leaves(p))
    BY <1>2, FilledType
  <2>2. IsFiniteSet({Elsewhere})
    BY FS_Singleton
  <2> QED
    BY <2>1, <2>2 DEF Configs
<1>4. config \in Configs(Leaves(p)) /\ shown \in Configs(Leaves(p))
  BY <1>3 DEF Init
<1>5. FormState(form)
  BY <1>2, <1>4, FreshState, ClosedState DEF Init
<1>6. DOMAIN asked \subseteq DOMAIN p.type
  BY DEF Init, None
<1>7. queue \in Seq(OpsAt(Place, Leaves(p)))
  <2>1. queue = <<>>
    BY DEF Init
  <2> QED
    BY <2>1
<1>8. touched \subseteq Path /\ bound \in Bounds
  BY DEF Init, Bounds
<1> QED
  BY <1>1, <1>4, <1>5, <1>6, <1>7, <1>8 DEF TypeInv

(* The clicks leave the configuration alone. *)
LEMMA GestureTypeInv ==
  ASSUME TypeInv, Gesture
  PROVE  /\ p' = p /\ config' = config /\ shown' = shown /\ bound' \in Bounds
         /\ bound'.commits = bound.commits /\ bound'.changes = bound.changes
BY DEF TypeInv, Gesture, Counted, Bounds

LEMMA GestureKeepsTypes ==
  ASSUME TypeInv, Gesture, queue' \in Seq(OpsAt(Place, Leaves(p))), FormState(form'),
         DOMAIN asked' \subseteq DOMAIN p.type, touched' \subseteq Path
  PROVE  TypeInv'
BY GestureTypeInv DEF TypeInv, FormState

(* One lemma for each group of actions. *)
LEMMA PressType ==
  ASSUME TypeInv, NEW op \in OpsAt(Place, Leaves(p)), Press(op), Gesture
  PROVE  TypeInv'
<1>1. WellFormed(p) /\ shown \in Configs(Leaves(p)) /\ FormState(form) /\ queue \in Seq(OpsAt(Place, Leaves(p)))
  BY PageIsWellFormed DEF TypeInv
<1>2. queue' \in Seq(OpsAt(Place, Leaves(p)))
  BY <1>1, AddType DEF Press
<1>3. FormState(form')
  BY <1>1, RenderedState DEF Press
<1>4. DOMAIN asked' \subseteq DOMAIN p.type
  BY DEF Press, None
<1>5. touched' \subseteq Path
  BY DEF TypeInv, Press, OpsAt, Place
<1> QED
  BY <1>2, <1>3, <1>4, <1>5, GestureKeepsTypes

(* What the buttons queue. *)
LEMMA NodeOpType ==
  ASSUME WellFormed(p), NEW path \in Place
  PROVE  SetNode(path) \in OpsAt(Place, Leaves(p)) /\ DeleteNode(path) \in OpsAt(Place, Leaves(p))
BY DEF SetNode, DeleteNode, SetOp, DeleteOp, OpsAt, Leaves

LEMMA ButtonsType == TypeInv /\ (Enable \/ Disable \/ RemoveEntry) => TypeInv'
<1> SUFFICES ASSUME TypeInv, Enable \/ Disable \/ RemoveEntry PROVE TypeInv'
  OBVIOUS
<1>1. WellFormed(p)
  BY PageIsWellFormed DEF TypeInv
<1>2. p.gate \in Place /\ p.at \in Place
  BY <1>1, PathsOf
<1> QED
  BY <1>1, <1>2, NodeOpType, PressType DEF Enable, Disable, RemoveEntry

LEMMA OpenType == TypeInv /\ (OpenCreate \/ OpenEdit \/ Cancel) => TypeInv'
<1> SUFFICES ASSUME TypeInv, OpenCreate \/ OpenEdit \/ Cancel PROVE TypeInv'
  OBVIOUS
<1>1. WellFormed(p) /\ shown \in Configs(Leaves(p)) /\ UNCHANGED <<queue, asked, touched>> /\ Gesture
  BY PageIsWellFormed DEF TypeInv, OpenCreate, OpenEdit, Cancel
<1>2. FormState(form')
  BY <1>1, FreshState, ClosedState, NothingIsConfig DEF OpenCreate, OpenEdit, Cancel
<1> QED
  BY <1>1, <1>2, GestureKeepsTypes DEF TypeInv

LEMMA TypeType == TypeInv /\ Type => TypeInv'
<1> SUFFICES ASSUME TypeInv, Type PROVE TypeInv'
  OBVIOUS
<1>1. PICK f \in DOMAIN p.form \ form.typed : \E value \in Inputs(f) \ {form.values[f]} :
         form' = [form EXCEPT !.values[f] = value, !.typed = @ \cup {f}]
  BY DEF Type
<1>2. PICK value \in Inputs(f) :
         form' = [form EXCEPT !.values[f] = value, !.typed = @ \cup {f}]
  BY <1>1
<1>3. value \in FieldValues(p.form[f], Leaves(p))
  <2>1. {} \in FieldValues([is |-> "list"], Leaves(p)) /\ {New} \in FieldValues([is |-> "list"], Leaves(p))
        /\ {Old, New} \in FieldValues([is |-> "list"], Leaves(p))
    <3>1. IsFiniteSet({}) /\ IsFiniteSet({New}) /\ IsFiniteSet({Old})
      BY FS_EmptySet, FS_Singleton
    <3>2. IsFiniteSet({Old, New})
      <4>1. {Old, New} = {Old} \cup {New}
        OBVIOUS
      <4> QED
        BY <3>1, <4>1, FS_AddElement
    <3> QED
      BY <3>1, <3>2 DEF FieldValues, Leaves
  <2>2. WellFormed(p) /\ p.form[f].is \in {"scalar", "secret", "raw", "flag", "list"} /\ FieldShown(p, f) \in DOMAIN p.type
    BY PageIsWellFormed DEF TypeInv, WellFormed, WellFormedForm
  <2>3. p.form[f].is = "raw" => {Spaces, Padded} \subseteq Leaves(p)
    BY DEF Leaves, HasRaw
  <2>4. p.type[FieldShown(p, f)].is = "number" => Word \in Leaves(p)
    BY <2>2 DEF Leaves, HasNumbers
  <2>5. CASE p.form[f].is = "flag"
    BY <2>5 DEF Inputs, FieldValues
  <2>6. CASE p.form[f].is = "list"
    BY <2>1, <2>6 DEF Inputs, FieldValues
  <2>7. CASE p.form[f].is \in {"scalar", "secret", "raw"}
    <3>1. value \in {Spaces, Padded} \/ (value = Word /\ p.type[FieldShown(p, f)].is = "number")
      BY <2>7 DEF Inputs, ShownKind
    <3> QED
      BY <2>3, <2>4, <2>7, <3>1 DEF FieldValues
  <2> QED
    BY <2>2, <2>5, <2>6, <2>7
<1>4. FormState(form) /\ form.open
  BY DEF TypeInv, Type
<1>5. FormState(form')
  BY <1>2, <1>3, <1>4 DEF FormState
<1> QED
  BY <1>5, GestureKeepsTypes DEF TypeInv, Type

(* What Save queues: operations for the fields of the form that differ     *)
(* from what the client shows, and for a new entry its first operations.   *)
SavedFrom == IF form.edits THEN shown ELSE {}

SaveQueues(ops, first) ==
  /\ ops \in Seq(OpsAt(FormPaths(p, SavedFrom, form.values), Leaves(p)))
  /\ first = <<>> \/ (~form.edits /\ first = p.starts)
  /\ queue' = AddAll(queue, ops \o first)
  /\ touched' = touched \cup {p.at \o p.form[f].path : f \in form.typed} \cup {first[i].path : i \in DOMAIN first}
                \cup (IF form.edits THEN {} ELSE {p.at})

LEMMA SavedFromType == TypeInv => SavedFrom \in Configs(Leaves(p))
BY NothingIsConfig DEF TypeInv, SavedFrom

(* What Save does to the queue and to the touched paths. *)
LEMMA SaveIs ==
  ASSUME TypeInv, Save
  PROVE  \E ops, first : SaveQueues(ops, first)
<1>1. PICK first \in {<<>>} \cup (IF form.edits THEN {} ELSE {p.starts}) :
        /\ queue' = AddAll(queue, FormToOps(p, IF form.edits THEN shown ELSE {}, form.values) \o first)
        /\ touched' = touched \cup {p.at \o p.form[f].path : f \in form.typed} \cup {first[i].path : i \in DOMAIN first}
                      \cup (IF form.edits THEN {} ELSE {p.at})
  BY DEF Save
<1> DEFINE ops == FormToOps(p, SavedFrom, form.values)
<1>2. ops \in Seq(OpsAt(FormPaths(p, SavedFrom, form.values), Leaves(p)))
  <2>1. WellFormed(p) /\ SavedFrom \in Configs(Leaves(p))
    BY PageIsWellFormed, SavedFromType DEF TypeInv
  <2>2. \A f \in DOMAIN p.form : form.values[f] \in FieldValues(p.form[f], Leaves(p))
    BY DEF TypeInv, FormState, Save
  <2> QED
    BY <2>1, <2>2, FormToOpsType
<1>3. queue' = AddAll(queue, ops \o first)
  BY <1>1 DEF SavedFrom
<1> HIDE DEF ops
<1>4. first = <<>> \/ (~form.edits /\ first = p.starts)
  BY <1>1
<1>5. SaveQueues(ops, first)
  BY <1>1, <1>2, <1>3, <1>4 DEF SaveQueues
<1> QED
  BY <1>5

(* A form writes to places. *)
LEMMA FormPathsType ==
  ASSUME TypeInv
  PROVE  FormPaths(p, SavedFrom, form.values) \subseteq Place
<1>1. WellFormed(p)
  BY PageIsWellFormed DEF TypeInv
<1>2. p.at \in Place /\ \A f \in DOMAIN p.form : p.at \o p.form[f].path \in Place
  BY <1>1, PathsOf
<1> QED
  BY <1>2 DEF FormPaths, Changed

(* Operations on fewer paths are operations on more. *)
LEMMA OpsAtGrows ==
  ASSUME NEW vals, NEW small, NEW large, small \subseteq large, NEW ops \in Seq(OpsAt(small, vals))
  PROVE  ops \in Seq(OpsAt(large, vals))
<1>1. OpsAt(small, vals) \subseteq OpsAt(large, vals)
  BY DEF OpsAt
<1> HIDE DEF OpsAt
<1> QED
  BY <1>1, SeqMonotonic

(* What the user may expect is about fields of the component. *)
LEMMA SaveAsked ==
  ASSUME TypeInv, Save
  PROVE  DOMAIN asked' \subseteq DOMAIN p.type
<1>1. WellFormed(p) /\ FormState(form) /\ form.open /\ DOMAIN asked \subseteq DOMAIN p.type
  BY PageIsWellFormed DEF TypeInv, Save
<1>2. \A f \in form.typed : FieldShown(p, f) \in DOMAIN p.type
  BY <1>1 DEF FormState, WellFormed, WellFormedForm
<1> DEFINE again == {f \in form.typed : Queued(p.at \o p.form[f].path)}
           saved == {FieldShown(p, f) : f \in form.typed \ again}
           old == DOMAIN asked \ {FieldShown(p, f) : f \in again}
<1>3. asked' = IF shown # config THEN None
               ELSE [g \in saved \cup old |->
                       IF g \in saved THEN Expected(CHOOSE f \in form.typed : FieldShown(p, f) = g) ELSE asked[g]]
  BY Zenon DEF Save
<1>4. saved \cup old \subseteq DOMAIN p.type
  BY <1>1, <1>2
<1> HIDE DEF saved, old
<1>5. DOMAIN asked' \subseteq saved \cup old
  BY <1>3 DEF None
<1> QED
  BY <1>4, <1>5

LEMMA SaveType == TypeInv /\ Save => TypeInv'
<1> SUFFICES ASSUME TypeInv, Save PROVE TypeInv'
  OBVIOUS
<1>1. WellFormed(p) /\ FormState(form) /\ form.open /\ queue \in Seq(OpsAt(Place, Leaves(p)))
  BY PageIsWellFormed DEF TypeInv, Save
<1>2. PICK ops, first : SaveQueues(ops, first)
  BY SaveIs
<1>3. first \in Seq(OpsAt(Place, Leaves(p)))
  <2>1. first = <<>> \/ first \in Seq([op : {"set"}, path : Place, val : Leaves(p)])
    BY <1>1, <1>2 DEF SaveQueues, WellFormed
  <2> DEFINE S == [op : {"set"}, path : Place, val : Leaves(p)]
             T == OpsAt(Place, Leaves(p))
  <2>2. S \subseteq T
    BY DEF OpsAt
  <2>3. first = <<>> \/ first \in Seq(S)
    BY <2>1
  <2>4. first \in Seq(T)
    <3> HIDE DEF S, T
    <3>1. Seq(S) \subseteq Seq(T)
      BY <2>2, SeqMonotonic
    <3>2. CASE first = <<>>
      BY <3>2
    <3> QED
      BY <2>3, <3>1, <3>2
  <2> QED
    BY <2>4
<1>4. ops \in Seq(OpsAt(Place, Leaves(p)))
  BY <1>2, FormPathsType, OpsAtGrows DEF SaveQueues
<1>5. queue' \in Seq(OpsAt(Place, Leaves(p)))
  <2>1. ops \o first \in Seq(OpsAt(Place, Leaves(p)))
    BY <1>3, <1>4, ConcatProperties
  <2> QED
    BY <1>1, <1>2, <2>1, AddAllType DEF SaveQueues
<1>6. FormState(form')
  BY <1>1, ClosedState DEF Save
<1>7. touched' \subseteq Path
  <2>1. \A i \in DOMAIN first : first[i].path \in Path
    <3>1. \A i \in DOMAIN first : first[i] \in OpsAt(Place, Leaves(p))
      BY <1>3
    <3> QED
      BY <3>1 DEF OpsAt, Place
  <2>2. \A f \in form.typed : p.at \o p.form[f].path \in Path
    BY <1>1, PathsOf DEF FormState, Place
  <2>3. touched \subseteq Path /\ p.at \in Path
    BY <1>1, PathsOf DEF TypeInv
  <2> QED
    BY <1>2, <2>1, <2>2, <2>3 DEF SaveQueues
<1>8. Gesture /\ DOMAIN asked' \subseteq DOMAIN p.type
  BY SaveAsked DEF Save
<1> QED
  BY <1>5, <1>6, <1>7, <1>8, GestureKeepsTypes

LEMMA ChipType ==
  ASSUME TypeInv, NEW f \in DOMAIN p.chips, NEW op \in OpsAt(Place, Leaves(p)), NEW value, Chip(f, op, value)
  PROVE  TypeInv'
<1>1. WellFormed(p) /\ queue \in Seq(OpsAt(Place, Leaves(p)))
  BY PageIsWellFormed DEF TypeInv
<1>2. queue' \in Seq(OpsAt(Place, Leaves(p)))
  BY <1>1, AddType DEF Chip
<1>3. FormState(form')
  BY DEF Chip, TypeInv
<1>4. DOMAIN asked' \subseteq DOMAIN p.type
  <2>1. DOMAIN asked \subseteq DOMAIN p.type /\ f \in DOMAIN p.type
    BY <1>1 DEF TypeInv, WellFormed
  <2>2. DOMAIN asked' \subseteq {f} \cup DOMAIN asked
    BY DEF Chip
  <2> QED
    BY <2>1, <2>2
<1>5. touched' \subseteq Path /\ Gesture
  BY DEF TypeInv, Chip, OpsAt, Place
<1> QED
  BY <1>2, <1>3, <1>4, <1>5, GestureKeepsTypes

(* The values of a list are texts of the component. *)
LEMMA ListIsOfLeaves ==
  ASSUME TypeInv, NEW f \in DOMAIN p.chips, p.type[f].is = "list", NEW text \in Parsed(p, shown)[f]
  PROVE  text \in Leaves(p)
<1>1. f \in DOMAIN p.type
  BY PageIsWellFormed DEF TypeInv, WellFormed
<1>2. Parsed(p, shown)[f] = ReadField(p.type[f], shown, p.at, p.reads[f])
  BY <1>1 DEF Parsed
<1>3. \E n \in shown : n.val = text
  BY <1>2 DEF ReadField
<1> QED
  BY <1>3 DEF TypeInv, Configs, Nodes

LEMMA ChipsType == TypeInv /\ (AddChip \/ RemoveChip \/ Toggle) => TypeInv'
<1> SUFFICES ASSUME TypeInv, AddChip \/ RemoveChip \/ Toggle PROVE TypeInv'
  OBVIOUS
<1>1. WellFormed(p)
  BY PageIsWellFormed DEF TypeInv
<1>2. \A f \in DOMAIN p.chips : p.at \o p.chips[f] \in Place
  BY <1>1, PathsOf
<1>3. \A path \in Place, val \in Leaves(p) : SetOp(path, val) \in OpsAt(Place, Leaves(p)) /\ DeleteOp(path, val) \in OpsAt(Place, Leaves(p))
  BY DEF SetOp, DeleteOp, OpsAt
<1>4. CASE AddChip
  <2>1. New \in Leaves(p)
    BY DEF Leaves
  <2> QED
    BY <1>2, <1>3, <1>4, <2>1, ChipType DEF AddChip
<1>5. CASE RemoveChip
  BY <1>2, <1>3, <1>5, ListIsOfLeaves, ChipType DEF RemoveChip
<1>6. CASE Toggle
  BY <1>1, <1>2, <1>6, NodeOpType, ChipType DEF Toggle
<1> QED
  BY <1>4, <1>5, <1>6

LEMMA CommitType == TypeInv /\ Commit => TypeInv'
<1> SUFFICES ASSUME TypeInv, Commit PROVE TypeInv'
  OBVIOUS
<1>1. WellFormed(p) /\ FormState(form) /\ NoValue \in Leaves(p)
  BY PageIsWellFormed DEF TypeInv, Leaves
<1>2. config' \in Configs(Leaves(p)) /\ shown' \in Configs(Leaves(p))
  BY <1>1, AfterOpsType DEF TypeInv, Commit
<1>3. FormState(form')
  BY <1>1, <1>2, RenderedState DEF Commit
<1>4. queue' \in Seq(OpsAt(Place, Leaves(p)))
  <2>1. queue' = <<>>
    BY DEF Commit
  <2> QED
    BY <2>1
<1>5. bound' \in Bounds
  BY DEF TypeInv, Commit, Counted, Bounds
<1> QED
  BY <1>2, <1>3, <1>4, <1>5 DEF TypeInv, FormState, Commit, None

LEMMA WorldType == TypeInv /\ (Interfere \/ Refetch \/ UNCHANGED vars) => TypeInv'
<1> SUFFICES ASSUME TypeInv, Interfere \/ Refetch \/ UNCHANGED vars PROVE TypeInv'
  OBVIOUS
<1>1. WellFormed(p) /\ FormState(form)
  BY PageIsWellFormed DEF TypeInv
<1>2. CASE Interfere
  <2>1. config' \in Configs(Leaves(p))
    BY <1>1, <1>2, FilledType DEF Interfere
  <2>2. bound' \in Bounds
    BY <1>2 DEF TypeInv, Interfere, Counted, Bounds
  <2> QED
    BY <1>2, <2>1, <2>2 DEF TypeInv, FormState, Interfere, None
<1>3. CASE Refetch
  <2>1. FormState(form')
    BY <1>1, <1>3, RenderedState DEF Refetch, TypeInv
  <2> QED
    BY <1>3, <2>1 DEF TypeInv, FormState, Refetch
<1>4. CASE UNCHANGED vars
  BY <1>4 DEF TypeInv, FormState, vars
<1> QED
  BY <1>2, <1>3, <1>4

(***************************************************************************)
(* The configuration, the queue and the form hold what they may: nothing   *)
(* is written outside the component's tables, and a text with spaces at    *)
(* its ends only by a component that has raw fields.                       *)
(***************************************************************************)
THEOREM TypeInvariant == Spec => []TypeInv
<1>1. TypeInv /\ [Next]_vars => TypeInv'
  BY ButtonsType, OpenType, TypeType, SaveType, ChipsType, CommitType, WorldType DEF Next
<1> QED
  BY <1>1, InitTypeInv, PTL DEF Spec

(* The type invariant that the run checks follows.                         *)
THEOREM TypeCorrect == Spec => []TypeOK
<1>1. TypeInv => TypeOK
  <2> SUFFICES ASSUME TypeInv PROVE TypeOK
    OBVIOUS
  <2>1. config \subseteq [path : Path, val : Leaves(p)] /\ shown \subseteq [path : Path, val : Leaves(p)]
    BY DEF TypeInv, Configs, Nodes
  <2>2. queue \in Seq([op : {"set", "delete"}, path : Path, val : Leaves(p)])
    <3>1. Place \subseteq Path
      BY DEF Place
    <3>2. queue \in Seq(OpsAt(Path, Leaves(p)))
      BY <3>1, OpsAtGrows DEF TypeInv
    <3> QED
      BY <3>2 DEF OpsAt
  <2>3. form.open => DOMAIN form.values = DOMAIN p.form /\ form.typed \subseteq DOMAIN p.form
    BY DEF TypeInv, FormState
  <2> QED
    BY <2>1, <2>2, <2>3 DEF TypeInv, TypeOK, Bounds
<1> QED
  BY <1>1, TypeInvariant, PTL

-----------------------------------------------------------------------------
(***************************************************************************)
(* Only what the user touched is queued.  The inductive invariant: until   *)
(* the other administrator acts the client shows the running               *)
(* configuration; what the user did not type in a form is what the         *)
(* configuration holds; a form for an existing entry is open only while    *)
(* the entry exists, so it never creates it.                               *)
(***************************************************************************)
Calm == p.keeps = "baseline" \/ bound.changes + bound.commits = 0

ShownIsCurrent == bound.changes = 0 => shown = config

UntypedAreShown ==
  form.open /\ Calm => \A f \in DOMAIN p.form \ form.typed : form.values[f] = FormValues(p, SavedFrom)[f]

EditedIsThere == form.open /\ form.edits /\ p.use \in {"adds", "items"} => Exists(shown, p.at)

QueuedIsTouched == Calm => queue \in Seq(OpsAt(touched, Leaves(p)))

TouchedInv == TypeInv /\ ShownIsCurrent /\ UntypedAreShown /\ EditedIsThere /\ QueuedIsTouched

(* A form that starts, and one that is not there. *)
LEMMA FreshForm ==
  ASSUME NEW values, NEW edits \in BOOLEAN
  PROVE  LET fresh == Fresh(values, edits) IN
         fresh.open /\ fresh.edits = edits /\ fresh.values = values /\ fresh.typed = {}
BY DEF Fresh

LEMMA ClosedForm == ~Closed.open
BY DEF Closed

LEMMA InitTouchedInv == Init => TouchedInv
<1> SUFFICES ASSUME Init PROVE TouchedInv
  OBVIOUS
<1>1. TypeInv /\ ShownIsCurrent
  BY InitTypeInv DEF Init, ShownIsCurrent
<1>2. form = Fresh(FormValues(p, shown), TRUE) \/ form = Closed
  BY DEF Init
<1>3. UntypedAreShown
  BY <1>2, FreshForm, ClosedForm DEF UntypedAreShown, SavedFrom
<1>4. p.use \in {"adds", "items"} => form = Closed
  BY DEF Init
<1>5. EditedIsThere
  BY <1>4, ClosedForm DEF EditedIsThere
<1>6. QueuedIsTouched
  <2>1. queue = <<>>
    BY DEF Init
  <2> QED
    BY <2>1 DEF QueuedIsTouched
<1> QED
  BY <1>1, <1>3, <1>5, <1>6 DEF TouchedInv

(* Rendering after any change keeps the two facts about forms. *)
LEMMA RenderedTouchedInv ==
  ASSUME TypeInv, UntypedAreShown, EditedIsThere, p' = p, form' = Rendered(shown', queue'),
         Calm' => Calm /\ (p.keeps = "baseline" \/ shown' = shown)
  PROVE  UntypedAreShown' /\ EditedIsThere'
<1>0. WellFormed(p)
  BY PageIsWellFormed DEF TypeInv
<1>1. CASE form' = Closed
  <2>1. ~form'.open
    BY <1>1, ClosedForm
  <2> QED
    BY <2>1 DEF UntypedAreShown, EditedIsThere
<1>2. CASE /\ form' = Fresh(FormValues(p, shown'), TRUE)
           /\ CASE p.use = "settings" -> TRUE
                [] p.use = "gated" -> EnabledAfter(shown', queue')
                [] OTHER -> form.open /\ (form.edits => Exists(shown', p.at))
           /\ ~form.open \/ p.keeps = "baseline"
  <2>1. form'.open /\ form'.edits /\ form'.values = FormValues(p, shown')
    BY <1>2, FreshForm
  <2>2. UntypedAreShown'
    BY <2>1 DEF UntypedAreShown, SavedFrom
  <2>3. p.use \notin {"adds", "items"}
    BY <1>0, <1>2 DEF WellFormed
  <2> QED
    BY <2>2, <2>3 DEF EditedIsThere
<1>3. CASE /\ form' = form /\ form.open
           /\ CASE p.use = "settings" -> TRUE
                [] p.use = "gated" -> EnabledAfter(shown', queue')
                [] OTHER -> form.open /\ (form.edits => Exists(shown', p.at))
           /\ ~(p.keeps = "baseline" /\ FormValues(p, shown') # FormValues(p, shown))
  <2>1. Calm' => FormValues(p, SavedFrom)' = FormValues(p, SavedFrom)
    BY <1>3 DEF SavedFrom
  <2>2. UntypedAreShown'
    BY <1>3, <2>1 DEF UntypedAreShown
  <2>3. EditedIsThere'
    BY <1>3 DEF EditedIsThere
  <2> QED
    BY <2>2, <2>3
<1> QED
  BY <1>1, <1>2, <1>3 DEF Rendered

(* The clicks. *)
LEMMA PressTouched ==
  ASSUME TouchedInv, TypeInv', NEW op \in OpsAt(Place, Leaves(p)), Press(op), Gesture
  PROVE  TouchedInv'
<1>1. /\ p' = p /\ config' = config /\ shown' = shown
      /\ bound'.commits = bound.commits /\ bound'.changes = bound.changes
  BY GestureTypeInv DEF TouchedInv
<1>2. Calm' <=> Calm
  BY <1>1 DEF Calm
<1>3. UntypedAreShown' /\ EditedIsThere'
  BY <1>1, <1>2, RenderedTouchedInv DEF TouchedInv, Press
<1>4. QueuedIsTouched'
  <2> SUFFICES ASSUME Calm PROVE queue' \in Seq(OpsAt(touched', Leaves(p)))
    BY <1>1, <1>2 DEF QueuedIsTouched
  <2>1. queue \in Seq(OpsAt(touched', Leaves(p)))
    BY OpsAtGrows DEF TouchedInv, QueuedIsTouched, Press
  <2>2. op \in OpsAt(touched', Leaves(p))
    BY DEF OpsAt, Press
  <2> QED
    BY <2>1, <2>2, AddType DEF Press
<1> QED
  BY <1>1, <1>3, <1>4 DEF TouchedInv, ShownIsCurrent

LEMMA ButtonsTouched == TouchedInv /\ TypeInv' /\ (Enable \/ Disable \/ RemoveEntry) => TouchedInv'
<1> SUFFICES ASSUME TouchedInv, TypeInv', Enable \/ Disable \/ RemoveEntry PROVE TouchedInv'
  OBVIOUS
<1>1. WellFormed(p)
  BY PageIsWellFormed DEF TouchedInv, TypeInv
<1>2. p.gate \in Place /\ p.at \in Place
  BY <1>1, PathsOf
<1> QED
  BY <1>1, <1>2, NodeOpType, PressTouched DEF Enable, Disable, RemoveEntry

LEMMA OpenTouched == TouchedInv /\ TypeInv' /\ (OpenCreate \/ OpenEdit \/ Cancel \/ Type) => TouchedInv'
<1> SUFFICES ASSUME TouchedInv, TypeInv', OpenCreate \/ OpenEdit \/ Cancel \/ Type PROVE TouchedInv'
  OBVIOUS
<1>1. Gesture /\ UNCHANGED <<queue, asked, touched>>
  BY DEF OpenCreate, OpenEdit, Cancel, Type
<1>2. /\ p' = p /\ config' = config /\ shown' = shown
      /\ bound'.commits = bound.commits /\ bound'.changes = bound.changes
  BY <1>1, GestureTypeInv DEF TouchedInv
<1>3. Calm' <=> Calm
  BY <1>2 DEF Calm
<1>4. ShownIsCurrent' /\ QueuedIsTouched'
  BY <1>1, <1>2, <1>3 DEF TouchedInv, ShownIsCurrent, QueuedIsTouched
<1>5. UntypedAreShown' /\ EditedIsThere'
  <2>1. CASE OpenCreate
    BY <1>2, <2>1, FreshForm DEF OpenCreate, UntypedAreShown, EditedIsThere, SavedFrom
  <2>2. CASE OpenEdit
    BY <1>2, <2>2, FreshForm DEF OpenEdit, UntypedAreShown, EditedIsThere, SavedFrom
  <2>3. CASE Cancel
    BY <2>3, ClosedForm DEF Cancel, UntypedAreShown, EditedIsThere
  <2>4. CASE Type
    <3>1. PICK f \in DOMAIN p.form \ form.typed : \E value \in Inputs(f) \ {form.values[f]} :
             form' = [form EXCEPT !.values[f] = value, !.typed = @ \cup {f}]
      BY <2>4 DEF Type
    <3>2. PICK value : form' = [form EXCEPT !.values[f] = value, !.typed = @ \cup {f}]
      BY <3>1
    <3>3. FormState(form) /\ form.open
      BY <2>4 DEF TouchedInv, TypeInv, Type
    <3>4. /\ form'.open = form.open /\ form'.edits = form.edits /\ form'.typed = form.typed \cup {f}
          /\ \A g \in DOMAIN p.form \ {f} : form'.values[g] = form.values[g]
      BY <3>2, <3>3 DEF FormState
    <3>5. UntypedAreShown'
      BY <1>2, <1>3, <3>4 DEF TouchedInv, UntypedAreShown, SavedFrom
    <3>6. EditedIsThere'
      BY <1>2, <3>4 DEF TouchedInv, EditedIsThere
    <3> QED
      BY <3>5, <3>6
  <2> QED
    BY <2>1, <2>2, <2>3, <2>4
<1> QED
  BY <1>4, <1>5 DEF TouchedInv

LEMMA SaveTouched == TouchedInv /\ TypeInv' /\ Save => TouchedInv'
<1> SUFFICES ASSUME TouchedInv, TypeInv', Save PROVE TouchedInv'
  OBVIOUS
<1>1. WellFormed(p) /\ TypeInv /\ Gesture /\ form.open
  BY PageIsWellFormed DEF TouchedInv, TypeInv, Save
<1>2. /\ p' = p /\ config' = config /\ shown' = shown
      /\ bound'.commits = bound.commits /\ bound'.changes = bound.changes
  BY <1>1, GestureTypeInv
<1>3. Calm' <=> Calm
  BY <1>2 DEF Calm
<1>4. form' = form \/ form' = Closed
  BY DEF Save
<1>5. UntypedAreShown' /\ EditedIsThere'
  <2>1. CASE form' = form
    BY <1>2, <1>3, <2>1 DEF TouchedInv, UntypedAreShown, EditedIsThere, SavedFrom
  <2>2. CASE form' = Closed
    BY <2>2, ClosedForm DEF UntypedAreShown, EditedIsThere
  <2> QED
    BY <1>4, <2>1, <2>2
<1>6. QueuedIsTouched'
  <2> SUFFICES ASSUME Calm PROVE queue' \in Seq(OpsAt(touched', Leaves(p)))
    BY <1>2, <1>3 DEF QueuedIsTouched
  <2>1. PICK ops, first : SaveQueues(ops, first)
    BY <1>1, SaveIs
  <2>2. queue \in Seq(OpsAt(touched', Leaves(p)))
    BY <2>1, OpsAtGrows DEF TouchedInv, QueuedIsTouched, SaveQueues
  <2>3. FormPaths(p, SavedFrom, form.values) \subseteq touched'
    <3>1. Changed(p, FormValues(p, SavedFrom), form.values) \subseteq form.typed
      BY <1>1 DEF TouchedInv, UntypedAreShown, Changed
    <3>2. form.edits /\ p.marks => Exists(shown, p.at)
      BY <1>1 DEF TouchedInv, EditedIsThere, WellFormed
    <3>3. p.marks /\ ~Exists(SavedFrom, p.at) => p.at \in touched'
      BY <2>1, <3>2 DEF SavedFrom, SaveQueues
    <3> QED
      BY <2>1, <3>1, <3>3 DEF FormPaths, SaveQueues
  <2>4. ops \in Seq(OpsAt(touched', Leaves(p)))
    BY <2>1, <2>3, OpsAtGrows DEF SaveQueues
  <2>5. first \in Seq(OpsAt(touched', Leaves(p)))
    <3>1. CASE first = <<>>
      BY <3>1
    <3>2. CASE first # <<>>
      <4>1. first \in Seq([op : {"set"}, path : Place, val : Leaves(p)])
        BY <1>1, <2>1, <3>2 DEF SaveQueues, WellFormed
      <4>2. \A i \in DOMAIN first : first[i].path \in touched'
        BY <2>1 DEF SaveQueues
      <4> DEFINE S == [op : {"set"}, path : Place, val : Leaves(p)]
                 T == OpsAt(touched', Leaves(p))
      <4>3. \A s \in S : s.path \in touched' => s \in T
        BY DEF OpsAt
      <4>4. first \in Seq(T)
        <5> HIDE DEF S, T
        <5>1. first \in Seq(S)
          BY <4>1 DEF S
        <5>2. Len(first) \in Nat /\ DOMAIN first = 1..Len(first) /\ \A i \in 1..Len(first) : first[i] \in S
          BY <5>1
        <5>3. \A i \in 1..Len(first) : first[i] \in T
          BY <4>2, <4>3, <5>2
        <5> QED
          BY <5>1, <5>2, <5>3
      <4> QED
        BY <4>4
    <3> QED
      BY <3>1, <3>2
  <2>6. ops \o first \in Seq(OpsAt(touched', Leaves(p)))
    BY <2>4, <2>5, ConcatProperties
  <2> QED
    BY <2>1, <2>2, <2>6, AddAllType DEF SaveQueues
<1> QED
  BY <1>2, <1>5, <1>6 DEF TouchedInv, ShownIsCurrent

LEMMA ChipTouched ==
  ASSUME TouchedInv, TypeInv', NEW f, NEW op \in OpsAt(Place, Leaves(p)), NEW value, Chip(f, op, value)
  PROVE  TouchedInv'
<1>1. /\ p' = p /\ config' = config /\ shown' = shown /\ form' = form
      /\ bound'.commits = bound.commits /\ bound'.changes = bound.changes
  BY GestureTypeInv DEF TouchedInv, Chip
<1>2. Calm' <=> Calm
  BY <1>1 DEF Calm
<1>3. UntypedAreShown' /\ EditedIsThere' /\ ShownIsCurrent'
  BY <1>1, <1>2 DEF TouchedInv, UntypedAreShown, EditedIsThere, ShownIsCurrent, SavedFrom
<1>4. QueuedIsTouched'
  <2> SUFFICES ASSUME Calm PROVE queue' \in Seq(OpsAt(touched', Leaves(p)))
    BY <1>1, <1>2 DEF QueuedIsTouched
  <2>1. queue \in Seq(OpsAt(touched', Leaves(p)))
    BY OpsAtGrows DEF TouchedInv, QueuedIsTouched, Chip
  <2>2. op \in OpsAt(touched', Leaves(p))
    BY DEF OpsAt, Chip
  <2> QED
    BY <2>1, <2>2, AddType DEF Chip
<1> QED
  BY <1>3, <1>4 DEF TouchedInv

(* What a chip or a flag queues, for every chip of the component. *)
LEMMA ChipOps ==
  ASSUME TypeInv, NEW f \in DOMAIN p.chips
  PROVE  /\ SetOp(p.at \o p.chips[f], New) \in OpsAt(Place, Leaves(p))
         /\ SetNode(p.at \o p.chips[f]) \in OpsAt(Place, Leaves(p))
         /\ DeleteNode(p.at \o p.chips[f]) \in OpsAt(Place, Leaves(p))
         /\ p.type[f].is = "list" => \A text \in Parsed(p, shown)[f] :
              DeleteOp(p.at \o p.chips[f], text) \in OpsAt(Place, Leaves(p))
<1>1. WellFormed(p)
  BY PageIsWellFormed DEF TypeInv
<1>2. p.at \o p.chips[f] \in Place /\ New \in Leaves(p)
  BY <1>1, PathsOf DEF Leaves
<1>3. \A path \in Place, val \in Leaves(p) : SetOp(path, val) \in OpsAt(Place, Leaves(p)) /\ DeleteOp(path, val) \in OpsAt(Place, Leaves(p))
  BY DEF SetOp, DeleteOp, OpsAt
<1> QED
  BY <1>1, <1>2, <1>3, NodeOpType, ListIsOfLeaves

LEMMA ChipsTouched == TouchedInv /\ TypeInv' /\ (AddChip \/ RemoveChip \/ Toggle) => TouchedInv'
<1> SUFFICES ASSUME TouchedInv, TypeInv', AddChip \/ RemoveChip \/ Toggle PROVE TouchedInv'
  OBVIOUS
<1>1. TypeInv
  BY DEF TouchedInv
<1>2. CASE AddChip
  BY <1>1, <1>2, ChipOps, ChipTouched DEF AddChip
<1>3. CASE RemoveChip
  BY <1>1, <1>3, ChipOps, ChipTouched DEF RemoveChip
<1>4. CASE Toggle
  BY <1>1, <1>4, ChipOps, ChipTouched DEF Toggle
<1> QED
  BY <1>2, <1>3, <1>4

LEMMA WorldTouched == TouchedInv /\ TypeInv' /\ (Commit \/ Interfere \/ Refetch \/ UNCHANGED vars) => TouchedInv'
<1> SUFFICES ASSUME TouchedInv, TypeInv', Commit \/ Interfere \/ Refetch \/ UNCHANGED vars PROVE TouchedInv'
  OBVIOUS
<1>1. TypeInv /\ p' = p /\ bound.commits \in Nat /\ bound.changes \in Nat
  BY DEF TouchedInv, TypeInv, Bounds, Commit, Interfere, Refetch, vars
<1>2. CASE Commit
  <2>1. bound'.commits = bound.commits + 1 /\ bound'.changes = bound.changes
    BY <1>2 DEF Commit, Counted, TouchedInv, TypeInv, Bounds
  <2>2. Calm' => p.keeps = "baseline"
    BY <1>1, <2>1 DEF Calm
  <2>3. Calm' => Calm /\ (p.keeps = "baseline" \/ shown' = shown)
    BY <2>2 DEF Calm
  <2>4. UntypedAreShown' /\ EditedIsThere'
    BY <1>1, <1>2, <2>3, RenderedTouchedInv DEF TouchedInv, Commit
  <2>5. ShownIsCurrent'
    BY <1>2 DEF Commit, ShownIsCurrent
  <2>6. QueuedIsTouched'
    <3>1. queue' = <<>>
      BY <1>2 DEF Commit
    <3> QED
      BY <3>1 DEF QueuedIsTouched
  <2> QED
    BY <2>4, <2>5, <2>6 DEF TouchedInv
<1>3. CASE Interfere
  <2>1. /\ bound'.changes = bound.changes + 1 /\ bound'.commits = bound.commits
        /\ UNCHANGED <<p, shown, queue, form, touched>>
    BY <1>3 DEF Interfere, Counted, TouchedInv, TypeInv, Bounds
  <2>2. Calm' => Calm
    BY <1>1, <2>1 DEF Calm
  <2>3. ShownIsCurrent'
    BY <1>1, <2>1 DEF ShownIsCurrent
  <2> QED
    BY <2>1, <2>2, <2>3 DEF TouchedInv, UntypedAreShown, EditedIsThere, QueuedIsTouched, SavedFrom
<1>4. CASE Refetch
  <2>1. UNCHANGED <<p, config, queue, asked, touched, bound>> /\ shown # config /\ shown' = config
    BY <1>4 DEF Refetch
  <2>2. bound.changes # 0
    BY <2>1 DEF TouchedInv, ShownIsCurrent
  <2>3. (Calm' <=> Calm) /\ (Calm => p.keeps = "baseline")
    BY <1>1, <2>1, <2>2 DEF Calm
  <2>4. UntypedAreShown' /\ EditedIsThere'
    BY <1>1, <1>4, <2>3, RenderedTouchedInv DEF TouchedInv, Refetch
  <2> QED
    BY <2>1, <2>3, <2>4 DEF TouchedInv, ShownIsCurrent, QueuedIsTouched
<1>5. CASE UNCHANGED vars
  BY <1>5 DEF TouchedInv, ShownIsCurrent, UntypedAreShown, EditedIsThere, QueuedIsTouched, SavedFrom, Calm, vars
<1> QED
  BY <1>2, <1>3, <1>4, <1>5

(***************************************************************************)
(* A page queues operations for what the user touched and for nothing      *)
(* else: the forms that start again with their baseline always (hooks/     *)
(* useBaselineState.ts), the others as long as the configuration stays as  *)
(* it was when they were opened.                                           *)
(***************************************************************************)
THEOREM OnlyTouched == Spec => []OnlyTouchedIsQueued
<1>1. TouchedInv /\ TypeInv' /\ [Next]_vars => TouchedInv'
  BY ButtonsTouched, OpenTouched, SaveTouched, ChipsTouched, WorldTouched DEF Next
<1>2. TouchedInv => OnlyTouchedIsQueued
  <2> SUFFICES ASSUME TouchedInv, Calm PROVE OnlyTouchedEver
    BY DEF OnlyTouchedIsQueued, Calm
  <2>1. \A i \in DOMAIN queue : queue[i] \in OpsAt(touched, Leaves(p))
    BY DEF TouchedInv, QueuedIsTouched
  <2> QED
    BY <2>1 DEF OnlyTouchedEver, OpsAt
<1> QED
  BY <1>1, <1>2, InitTouchedInv, TypeInvariant, PTL DEF Spec

-----------------------------------------------------------------------------
(***************************************************************************)
(* The Enable and Disable buttons.  The inductive invariant: while the     *)
(* form is there, no delete of the node is queued, and the node is there   *)
(* or set by the queue; otherwise nothing is queued for a node that is not *)
(* there, or the delete of the node is the last operation of such a queue. *)
(***************************************************************************)
Ops == SwitchOps(p.at, Leaves(p))

On(shown_, queue_) ==
  /\ queue_ \in Seq(Ops)
  /\ \A i \in DOMAIN queue_ : queue_[i] # DeleteNode(p.at)
  /\ Exists(shown_, p.at) \/ \E i \in DOMAIN queue_ : queue_[i] = SetNode(p.at)

Off(shown_, queue_) == \E on \in Seq(Ops) : On(shown_, on) /\ queue_ = Append(on, DeleteNode(p.at))

Switched(shown_, queue_, form_) ==
  \/ form_.open /\ form_.edits /\ On(shown_, queue_)
  \/ ~form_.open /\ Off(shown_, queue_)
  \/ ~form_.open /\ queue_ = <<>> /\ ~Exists(shown_, p.at)

SwitchInv ==
  p.use = "gated" => Switched(shown, queue, form) /\ (config # shown => Exists(config, p.at))

(* The component with the two buttons. *)
LEMMA SwitchPage ==
  ASSUME GatesAreOwn, TypeInv
  PROVE  /\ WellFormed(p) /\ p.at \in Place /\ p.at \in Path /\ NoValue \in Leaves(p)
         /\ p.use = "gated" => p.gate = p.at
BY PageIsWellFormed, PathsOf DEF TypeInv, Leaves, GatesAreOwn

(* What such a component queues. *)
LEMMA SwitchOpsOf ==
  ASSUME TypeInv
  PROVE  /\ Ops \subseteq OpsAt(Place, Leaves(p)) /\ OpsAt(BelowNode(p.at), Leaves(p)) \subseteq Ops
         /\ \A op \in Ops : op.path = p.at => op \in {SetNode(p.at), DeleteNode(p.at)}
         /\ SetNode(p.at) \in Ops /\ DeleteNode(p.at) \in Ops
<1>1. p.at \in Place /\ NoValue \in Leaves(p)
  BY PageIsWellFormed, PathsOf DEF TypeInv, Leaves
<1>2. SetNode(p.at) \in Ops /\ DeleteNode(p.at) \in Ops
  BY DEF Ops, SwitchOps
<1> QED
  BY <1>1, <1>2, SwitchOpsType DEF Ops

(* The operations for a node. *)
LEMMA NodeOpIs ==
  ASSUME NEW path
  PROVE  /\ SetNode(path).op = "set" /\ SetNode(path).path = path
         /\ DeleteNode(path).op = "delete" /\ DeleteNode(path).path = path
         /\ SetNode(path) # DeleteNode(path)
BY DEF SetNode, DeleteNode, SetOp, DeleteOp

(* The latest operation in such a queue. *)
LEMMA LatestInOps ==
  ASSUME TypeInv, NEW q \in Seq(Ops), NEW path
  PROVE  /\ LatestOn(q, path) \in 0..Len(q)
         /\ LatestOn(q, path) # 0 =>
              /\ q[LatestOn(q, path)].path = path
              /\ \A i \in 1..Len(q) : q[i].path = path => i =< LatestOn(q, path)
         /\ LatestOn(q, path) = 0 => \A i \in 1..Len(q) : q[i].path # path
<1>1. q \in Seq(OpsAt(Place, Leaves(p)))
  BY SwitchOpsOf, SeqMonotonic
<1> QED
  BY <1>1, LatestOnIs

(* What the buttons show. *)
LEMMA OnIsEnabled ==
  ASSUME GatesAreOwn, TypeInv, p.use = "gated", NEW shown_, NEW q, On(shown_, q)
  PROVE  EnabledAfter(shown_, q)
<1>1. /\ q \in Seq(Ops) /\ \A i \in 1..Len(q) : q[i] \in Ops /\ q[i] # DeleteNode(p.at)
      /\ Exists(shown_, p.at) \/ \E i \in 1..Len(q) : q[i] = SetNode(p.at)
  BY DEF On
<1> DEFINE k == LatestOn(q, p.at)
<1>2. /\ k \in 0..Len(q) /\ (k # 0 => q[k].path = p.at)
      /\ k = 0 => \A i \in 1..Len(q) : q[i].path # p.at
  BY <1>1, LatestInOps
<1>3. k # 0 => q[k] = SetNode(p.at)
  <2> SUFFICES ASSUME k # 0 PROVE q[k] = SetNode(p.at)
    OBVIOUS
  <2>1. k \in 1..Len(q)
    BY <1>2
  <2> HIDE DEF k
  <2> QED
    BY <1>1, <1>2, <2>1, SwitchOpsOf
<1>4. k = 0 => Exists(shown_, p.at)
  BY <1>1, <1>2, NodeOpIs
<1>5. p.gate = p.at
  BY SwitchPage
<1> QED
  BY <1>3, <1>4, <1>5, NodeOpIs DEF EnabledAfter, HasPendingDelete, HasPendingSet

(* A queue that ends with the delete of the node. *)
LEMMA OffIs ==
  ASSUME TypeInv, NEW shown_, NEW q, Off(shown_, q)
  PROVE  q \in Seq(Ops) /\ q # <<>> /\ q[Len(q)] = DeleteNode(p.at) /\ LatestOn(q, p.at) = Len(q)
<1>1. PICK on \in Seq(Ops) : q = Append(on, DeleteNode(p.at))
  BY DEF Off
<1>2. q \in Seq(Ops) /\ q # <<>> /\ q[Len(q)] = DeleteNode(p.at) /\ Len(q) \in 1..Len(q)
  BY <1>1, SwitchOpsOf
<1>3. LatestOn(q, p.at) = Len(q)
  <2> DEFINE k == LatestOn(q, p.at)
  <2>1. /\ k \in 0..Len(q) /\ (k # 0 => \A i \in 1..Len(q) : q[i].path = p.at => i =< k)
        /\ k = 0 => \A i \in 1..Len(q) : q[i].path # p.at
    BY <1>2, LatestInOps
  <2> HIDE DEF k
  <2>2. k = Len(q)
    BY <1>2, <2>1, NodeOpIs
  <2> QED
    BY <2>2 DEF k
<1> QED
  BY <1>2, <1>3

LEMMA OffIsDisabled ==
  ASSUME GatesAreOwn, TypeInv, p.use = "gated", NEW shown_, NEW q, Off(shown_, q), NEW any
  PROVE  ~EnabledAfter(any, q)
<1>1. q \in Seq(Ops) /\ q # <<>> /\ q[Len(q)] = DeleteNode(p.at) /\ LatestOn(q, p.at) = Len(q) /\ p.gate = p.at
  BY OffIs, SwitchPage
<1>2. Len(q) # 0
  BY <1>1
<1> QED
  BY <1>1, <1>2, NodeOpIs DEF EnabledAfter, HasPendingDelete

LEMMA EmptyIsAsShown ==
  ASSUME GatesAreOwn, TypeInv, p.use = "gated", NEW shown_, NEW q, q = <<>>
  PROVE  EnabledAfter(shown_, q) <=> Exists(shown_, p.at)
<1>1. q \in Seq(Ops) /\ Len(q) = 0
  OBVIOUS
<1>2. LatestOn(q, p.at) \in 0..0
  BY <1>1, LatestInOps
<1>3. LatestOn(q, p.at) = 0 /\ p.gate = p.at
  BY <1>2, SwitchPage
<1> QED
  BY <1>3 DEF EnabledAfter, HasPendingDelete, HasPendingSet

-----------------------------------------------------------------------------
(* What adding does to the queue. *)
LEMMA AddBelow ==
  ASSUME TypeInv, NEW shown_, NEW q, On(shown_, q), NEW op \in OpsAt(BelowNode(p.at), Leaves(p))
  PROVE  On(shown_, Add(q, op))
<1>1. /\ q \in Seq(Ops) /\ \A i \in 1..Len(q) : q[i] \in Ops /\ q[i] # DeleteNode(p.at)
      /\ Exists(shown_, p.at) \/ \E i \in 1..Len(q) : q[i] = SetNode(p.at)
  BY DEF On
<1>2. op \in Ops /\ op.path # p.at
  BY SwitchOpsOf DEF OpsAt, BelowNode
<1>3. q \in Seq(OpsAt(Place, Leaves(p))) /\ op \in OpsAt(Place, Leaves(p))
  BY <1>1, <1>2, SwitchOpsOf, SeqMonotonic
<1>4. CASE Add(q, op) = q
  BY <1>4
<1>5. CASE Add(q, op) = Append(q, op)
  <2> DEFINE r == Append(q, op)
  <2>1. r \in Seq(Ops) /\ Len(r) = Len(q) + 1 /\ r[Len(q) + 1] = op /\ \A i \in 1..Len(q) : r[i] = q[i] /\ i \in DOMAIN r
    BY <1>1, <1>2
  <2>2. \A i \in DOMAIN r : i \in 1..Len(q) \/ i = Len(q) + 1
    BY <1>1
  <2> HIDE DEF r
  <2>3. \A i \in DOMAIN r : r[i] # DeleteNode(p.at)
    BY <1>1, <1>2, <2>1, <2>2, NodeOpIs
  <2>4. On(shown_, r)
    BY <1>1, <2>1, <2>3 DEF On
  <2> QED
    BY <1>5, <2>4 DEF r
<1>6. ASSUME NEW k \in 1..Len(q), q[k] = DeleteNode(op.path), Add(q, op) = RemoveAt(q, k)
      PROVE  On(shown_, Add(q, op))
  <2> DEFINE r == RemoveAt(q, k)
             n == Len(q)
  <2>1. /\ r \in Seq(Ops) /\ Len(r) = n - 1 /\ \A i \in 1..(n - 1) : r[i] = IF i < k THEN q[i] ELSE q[i + 1]
        /\ n \in Nat /\ k \in 1..n
    BY <1>1, RemoveAtIs
  <2> HIDE DEF r, n
  <2>2. DOMAIN r = 1..(n - 1)
    BY <2>1
  <2>3. \A i \in 1..(n - 1) : r[i] # DeleteNode(p.at)
    <3>1. \A i \in 1..(n - 1) : i \in 1..n /\ i + 1 \in 1..n
      BY <2>1
    <3> QED
      BY <1>1, <2>1, <3>1 DEF n
  <2>4. ASSUME NEW i \in 1..n, q[i] = SetNode(p.at)
        PROVE  \E j \in 1..(n - 1) : r[j] = SetNode(p.at)
    <3>1. i # k
      BY <1>6, <2>4, NodeOpIs
    <3>2. CASE i < k
      <4>1. i \in 1..(n - 1) /\ r[i] = q[i]
        BY <2>1, <3>2
      <4> QED
        BY <2>4, <4>1
    <3>3. CASE i > k
      <4>1. i - 1 \in 1..(n - 1) /\ ~(i - 1 < k) /\ (i - 1) + 1 = i
        BY <2>1, <3>3
      <4>2. r[i - 1] = q[i]
        BY <2>1, <4>1
      <4> QED
        BY <2>4, <4>1, <4>2
    <3> QED
      BY <2>1, <3>1, <3>2, <3>3
  <2>5. On(shown_, r)
    BY <1>1, <2>1, <2>2, <2>3, <2>4 DEF On, n
  <2> QED
    BY <1>6, <2>5 DEF r
<1> QED
  BY <1>3, <1>4, <1>5, <1>6, AddIs

(* So does a whole form. *)
LEMMA AddAllBelow ==
  ASSUME TypeInv, NEW shown_, NEW q, On(shown_, q), NEW ops \in Seq(OpsAt(BelowNode(p.at), Leaves(p)))
  PROVE  On(shown_, AddAll(q, ops))
<1> DEFINE n == Len(ops)
           V == {r \in Seq(Ops) : On(shown_, r)}
<1>1. n \in Nat /\ DOMAIN ops = 1..n /\ \A i \in 1..n : ops[i] \in OpsAt(BelowNode(p.at), Leaves(p))
  OBVIOUS
<1>2. q \in V /\ \A r \in V, i \in 1..n : Add(r, ops[i]) \in V
  <2>1. \A r : On(shown_, r) => r \in Seq(Ops)
    BY DEF On
  <2> QED
    BY <1>1, <2>1, AddBelow
<1> HIDE DEF n, V
<1>3. AddAllRuns(V, q, ops, n)
  BY <1>1, <1>2, AddAllRun
<1>4. AddAll(q, ops) \in V
  BY <1>1, <1>3 DEF AddAllRuns
<1> QED
  BY <1>4 DEF V

(* Enable takes back the delete, or is the first operation. *)
LEMMA EnableTakesBack ==
  ASSUME TypeInv, NEW shown_, NEW q, Off(shown_, q)
  PROVE  On(shown_, Add(q, SetNode(p.at)))
<1>1. PICK on \in Seq(Ops) : On(shown_, on) /\ q = Append(on, DeleteNode(p.at))
  BY DEF Off
<1>2. q \in Seq(Ops) /\ q # <<>> /\ q[Len(q)] = DeleteNode(p.at) /\ LatestOn(q, p.at) = Len(q) /\ Len(q) # 0
  <2>1. q \in Seq(Ops) /\ q # <<>> /\ q[Len(q)] = DeleteNode(p.at) /\ LatestOn(q, p.at) = Len(q)
    BY OffIs
  <2> QED
    BY <2>1
<1>3. Add(q, SetNode(p.at)) = RemoveAt(q, Len(q))
  BY <1>2, NodeOpIs DEF Add, Last
<1>4. RemoveAt(q, Len(q)) = on
  <2> DEFINE n == Len(on)
             r == RemoveAt(q, Len(q))
  <2>1. n \in Nat /\ Len(q) = n + 1 /\ \A i \in 1..n : q[i] = on[i]
    BY <1>1
  <2>2. Len(q) \in 1..Len(q)
    BY <2>1
  <2>3. r \in Seq(Ops) /\ Len(r) = Len(q) - 1 /\ \A i \in 1..(Len(q) - 1) : r[i] = IF i < Len(q) THEN q[i] ELSE q[i + 1]
    BY <1>2, <2>2, RemoveAtIs
  <2> HIDE DEF r
  <2>4. Len(r) = n /\ \A i \in 1..n : r[i] = on[i]
    BY <2>1, <2>3
  <2>5. r = on
    BY <2>3, <2>4, SeqEqual
  <2> QED
    BY <2>5 DEF r
<1> QED
  BY <1>1, <1>3, <1>4

LEMMA EnableSets ==
  ASSUME TypeInv, NEW shown_, NEW q, q = <<>>
  PROVE  On(shown_, Add(q, SetNode(p.at)))
<1>1. q \in Seq(Ops) /\ Len(q) = 0
  OBVIOUS
<1>2. LatestOn(q, p.at) = 0
  <2>1. LatestOn(q, p.at) \in 0..0
    BY <1>1, LatestInOps
  <2> QED
    BY <2>1
<1>3. Add(q, SetNode(p.at)) = Append(q, SetNode(p.at))
  BY <1>2, NodeOpIs DEF Add
<1>4. Append(q, SetNode(p.at)) = <<SetNode(p.at)>>
  OBVIOUS
<1> DEFINE r == <<SetNode(p.at)>>
<1>5. r \in Seq(Ops) /\ DOMAIN r = {1} /\ r[1] = SetNode(p.at)
  BY SwitchOpsOf
<1> HIDE DEF r
<1>6. On(shown_, r)
  BY <1>5, NodeOpIs DEF On
<1> QED
  BY <1>3, <1>4, <1>6 DEF r

(* Disable puts the delete at the end. *)
LEMMA DisableDeletes ==
  ASSUME TypeInv, NEW shown_, NEW q, On(shown_, q)
  PROVE  Off(shown_, Add(q, DeleteNode(p.at)))
<1>1. q \in Seq(Ops) /\ \A i \in DOMAIN q : q[i] # DeleteNode(p.at)
  BY DEF On
<1>2. ~(q # <<>> /\ Last(q) = DeleteNode(p.at))
  <2>1. q # <<>> => Len(q) \in DOMAIN q
    BY <1>1
  <2> QED
    BY <1>1, <2>1 DEF Last
<1>3. Add(q, DeleteNode(p.at)) = Append(q, DeleteNode(p.at))
  BY <1>2, NodeOpIs DEF Add
<1> QED
  BY <1>1, <1>3 DEF Off

-----------------------------------------------------------------------------
(* The form follows the buttons. *)
LEMMA RenderedOn ==
  ASSUME GatesAreOwn, TypeInv, p.use = "gated", form.open => form.edits, NEW shown_, NEW q, On(shown_, q)
  PROVE  Switched(shown_, q, Rendered(shown_, q))
<1>1. EnabledAfter(shown_, q)
  BY OnIsEnabled
<1>2. Rendered(shown_, q) = Fresh(FormValues(p, shown_), TRUE) \/ (Rendered(shown_, q) = form /\ form.open)
  BY <1>1, RenderedIs
<1> QED
  BY <1>2, FreshForm DEF Switched

LEMMA RenderedOff ==
  ASSUME p.use = "gated", NEW shown_, NEW q, ~EnabledAfter(shown_, q),
         Off(shown_, q) \/ (q = <<>> /\ ~Exists(shown_, p.at))
  PROVE  Switched(shown_, q, Rendered(shown_, q))
<1>1. Rendered(shown_, q) = Closed
  BY RenderedIs
<1> QED
  BY <1>1, ClosedForm DEF Switched

LEMMA RenderedEmpty ==
  ASSUME GatesAreOwn, TypeInv, p.use = "gated", form.open => form.edits, NEW shown_, NEW q, q = <<>>
  PROVE  Switched(shown_, q, Rendered(shown_, q))
<1>1. EnabledAfter(shown_, q) <=> Exists(shown_, p.at)
  BY EmptyIsAsShown
<1>2. CASE Exists(shown_, p.at)
  <2>1. q \in Seq(Ops) /\ \A i \in DOMAIN q : q[i] # DeleteNode(p.at)
    OBVIOUS
  <2>2. On(shown_, q)
    BY <1>2, <2>1 DEF On
  <2> QED
    BY <2>2, RenderedOn
<1>3. CASE ~Exists(shown_, p.at)
  BY <1>1, <1>3, RenderedOff
<1> QED
  BY <1>2, <1>3

(* The places and the operations, of which the steps do not say more.      *)
LEMMA SwitchedIsOf ==
  ASSUME TypeInv, SwitchInv, p' = p, config' = config, shown' = shown,
         p.use = "gated" => Switched(shown, queue', form')
  PROVE  SwitchInv'
BY DEF SwitchInv, Switched, On, Off, Ops

(* What the invariant says of the form and of the buttons. *)
LEMMA SwitchedCases ==
  ASSUME GatesAreOwn, TypeInv, p.use = "gated", SwitchInv
  PROVE  /\ form.open => form.edits /\ On(shown, queue)
         /\ EnabledAfter(shown, queue) <=> form.open
         /\ ~form.open => Off(shown, queue) \/ (queue = <<>> /\ ~Exists(shown, p.at))
<1>1. CASE form.open /\ form.edits /\ On(shown, queue)
  BY <1>1, OnIsEnabled
<1>2. CASE ~form.open /\ Off(shown, queue)
  BY <1>2, OffIsDisabled
<1>3. CASE ~form.open /\ queue = <<>> /\ ~Exists(shown, p.at)
  BY <1>3, EmptyIsAsShown
<1> QED
  BY <1>1, <1>2, <1>3 DEF SwitchInv, Switched

LEMMA InitSwitchInv ==
  ASSUME GatesAreOwn
  PROVE  Init => SwitchInv
<1> SUFFICES ASSUME Init, p.use = "gated" PROVE SwitchInv
  BY DEF SwitchInv
<1>1. config = shown /\ queue = <<>>
  BY DEF Init
<1>2. CASE Exists(shown, p.at)
  <2>1. form = Fresh(FormValues(p, shown), TRUE)
    BY <1>2 DEF Init
  <2>2. queue \in Seq(Ops) /\ \A i \in DOMAIN queue : queue[i] # DeleteNode(p.at)
    BY <1>1
  <2>3. On(shown, queue)
    BY <1>2, <2>2 DEF On
  <2> QED
    BY <1>1, <2>1, <2>3, FreshForm DEF SwitchInv, Switched
<1>3. CASE ~Exists(shown, p.at)
  <2>1. form = Closed
    BY <1>3 DEF Init
  <2> QED
    BY <1>1, <1>3, <2>1, ClosedForm DEF SwitchInv, Switched
<1> QED
  BY <1>2, <1>3

LEMMA ButtonsSwitch ==
  ASSUME GatesAreOwn
  PROVE  TypeInv /\ SwitchInv /\ (Enable \/ Disable \/ RemoveEntry) => SwitchInv'
<1> SUFFICES ASSUME TypeInv, SwitchInv, Enable \/ Disable \/ RemoveEntry PROVE SwitchInv'
  OBVIOUS
<1>1. Gesture
  BY DEF Enable, Disable, RemoveEntry
<1>2. p' = p /\ config' = config /\ shown' = shown
  BY <1>1, GestureTypeInv
<1> SUFFICES ASSUME p.use = "gated" PROVE Switched(shown, queue', form')
  BY <1>2, SwitchedIsOf
<1>3. p.gate = p.at
  BY SwitchPage
<1>4. form.open => form.edits
  BY SwitchedCases
<1>5. CASE Enable
  <2>1. queue' = Add(queue, SetNode(p.at)) /\ form' = Rendered(shown, queue') /\ ~EnabledAfter(shown, queue)
    BY <1>3, <1>5 DEF Enable, Press
  <2>2. Off(shown, queue) \/ queue = <<>>
    BY <2>1, SwitchedCases
  <2>3. On(shown, queue')
    BY <2>1, <2>2, EnableTakesBack, EnableSets
  <2> QED
    BY <1>4, <2>1, <2>3, RenderedOn
<1>6. CASE Disable
  <2>1. queue' = Add(queue, DeleteNode(p.at)) /\ form' = Rendered(shown, queue') /\ EnabledAfter(shown, queue)
    BY <1>3, <1>6 DEF Disable, Press
  <2>2. On(shown, queue)
    BY <2>1, SwitchedCases
  <2>3. Off(shown, queue')
    BY <2>1, <2>2, DisableDeletes
  <2>4. ~EnabledAfter(shown, queue')
    BY <2>3, OffIsDisabled
  <2> QED
    BY <2>1, <2>3, <2>4, RenderedOff
<1>7. CASE RemoveEntry
  BY <1>7 DEF RemoveEntry
<1> QED
  BY <1>5, <1>6, <1>7

LEMMA OpenSwitch == TypeInv /\ SwitchInv /\ (OpenCreate \/ OpenEdit \/ Cancel \/ Type) => SwitchInv'
<1> SUFFICES ASSUME TypeInv, SwitchInv, OpenCreate \/ OpenEdit \/ Cancel \/ Type PROVE SwitchInv'
  OBVIOUS
<1>1. Gesture /\ queue' = queue
  BY DEF OpenCreate, OpenEdit, Cancel, Type
<1>2. p' = p /\ config' = config /\ shown' = shown
  BY <1>1, GestureTypeInv
<1> SUFFICES ASSUME p.use = "gated" PROVE Switched(shown, queue', form')
  BY <1>2, SwitchedIsOf
<1>3. Type
  BY DEF OpenCreate, OpenEdit, Cancel
<1>4. PICK f, value : form' = [form EXCEPT !.values[f] = value, !.typed = @ \cup {f}]
  BY <1>3 DEF Type
<1>5. form'.open = form.open /\ form'.edits = form.edits
  BY <1>4 DEF TypeInv, FormState
<1> QED
  BY <1>1, <1>5 DEF SwitchInv, Switched

LEMMA SaveSwitch ==
  ASSUME GatesAreOwn
  PROVE  TypeInv /\ SwitchInv /\ Save => SwitchInv'
<1> SUFFICES ASSUME TypeInv, SwitchInv, Save PROVE SwitchInv'
  OBVIOUS
<1>1. p' = p /\ config' = config /\ shown' = shown
  BY GestureTypeInv DEF Save
<1> SUFFICES ASSUME p.use = "gated" PROVE Switched(shown, queue', form')
  BY <1>1, SwitchedIsOf
<1>2. form' = form /\ form.open
  BY DEF Save
<1>3. form.edits /\ On(shown, queue)
  BY <1>2, SwitchedCases
<1>4. PICK ops, first : SaveQueues(ops, first)
  BY SaveIs
<1>5. ops \o first = ops
  <2>1. first = <<>>
    BY <1>3, <1>4 DEF SaveQueues
  <2>2. ops \in Seq(OpsAt(FormPaths(p, SavedFrom, form.values), Leaves(p)))
    BY <1>4 DEF SaveQueues
  <2> QED
    BY <2>1, <2>2
<1>6. FormPaths(p, SavedFrom, form.values) \subseteq BelowNode(p.at)
  <2>1. WellFormed(p) /\ p.at \in Path
    BY SwitchPage
  <2>2. \A f \in DOMAIN p.form : p.at \o p.form[f].path \in BelowNode(p.at)
    BY <2>1, ConcatIsBelow DEF WellFormed, WellFormedForm
  <2>3. ~p.marks
    BY <2>1 DEF WellFormed
  <2> QED
    BY <2>2, <2>3 DEF FormPaths, Changed
<1>7. ops \in Seq(OpsAt(BelowNode(p.at), Leaves(p)))
  BY <1>4, <1>6, OpsAtGrows DEF SaveQueues
<1>8. On(shown, queue')
  BY <1>3, <1>4, <1>5, <1>7, AddAllBelow DEF SaveQueues
<1> QED
  BY <1>2, <1>3, <1>8 DEF Switched

LEMMA ChipSwitch ==
  ASSUME GatesAreOwn, TypeInv, SwitchInv, NEW f, NEW op \in OpsAt(BelowNode(p.at), Leaves(p)), NEW value,
         Chip(f, op, value), ChipsShown
  PROVE  SwitchInv'
<1>1. p' = p /\ config' = config /\ shown' = shown
  BY GestureTypeInv DEF Chip
<1> SUFFICES ASSUME p.use = "gated" PROVE Switched(shown, queue', form')
  BY <1>1, SwitchedIsOf
<1>2. form.open /\ form' = form /\ queue' = Add(queue, op)
  BY DEF Chip, ChipsShown
<1>3. form.edits /\ On(shown, queue)
  BY <1>2, SwitchedCases
<1>4. On(shown, queue')
  BY <1>2, <1>3, AddBelow
<1> QED
  BY <1>2, <1>3, <1>4 DEF Switched

LEMMA ChipsSwitch ==
  ASSUME GatesAreOwn
  PROVE  TypeInv /\ SwitchInv /\ (AddChip \/ RemoveChip \/ Toggle) => SwitchInv'
<1> SUFFICES ASSUME TypeInv, SwitchInv, AddChip \/ RemoveChip \/ Toggle PROVE SwitchInv'
  OBVIOUS
<1>1. WellFormed(p) /\ p.at \in Path
  BY SwitchPage
<1>2. ASSUME NEW f \in DOMAIN p.chips, NEW val \in Leaves(p)
      PROVE  /\ SetOp(p.at \o p.chips[f], val) \in OpsAt(BelowNode(p.at), Leaves(p))
             /\ DeleteOp(p.at \o p.chips[f], val) \in OpsAt(BelowNode(p.at), Leaves(p))
  <2>1. p.at \o p.chips[f] \in BelowNode(p.at)
    BY <1>1, ConcatIsBelow DEF WellFormed
  <2> QED
    BY <2>1 DEF SetOp, DeleteOp, OpsAt
<1>3. New \in Leaves(p) /\ NoValue \in Leaves(p)
  BY DEF Leaves
<1>4. CASE AddChip
  BY <1>2, <1>3, <1>4, ChipSwitch DEF AddChip
<1>5. CASE RemoveChip
  BY <1>2, <1>5, ListIsOfLeaves, ChipSwitch DEF RemoveChip
<1>6. CASE Toggle
  BY <1>2, <1>3, <1>6, ChipSwitch DEF Toggle, SetNode, DeleteNode
<1> QED
  BY <1>4, <1>5, <1>6

(* What the other administrator fills in has the node. *)
LEMMA FilledExists ==
  ASSUME NEW text, p.at \in Path
  PROVE  Exists({Elsewhere} \cup Filled(p, text), p.at)
<1>1. Node(p.at, NoValue) \in Filled(p, text)
  BY Zenon DEF Filled
<1>2. IsPrefix(p.at, Node(p.at, NoValue).path)
  BY PrefixOfItself DEF Node
<1> QED
  BY <1>1, <1>2 DEF Exists, Below

LEMMA WorldSwitch ==
  ASSUME GatesAreOwn
  PROVE  TypeInv /\ SwitchInv /\ (Commit \/ Interfere \/ Refetch \/ UNCHANGED vars) => SwitchInv'
<1> SUFFICES ASSUME TypeInv, SwitchInv, Commit \/ Interfere \/ Refetch \/ UNCHANGED vars, p.use = "gated"
             PROVE  Switched(shown', queue', form') /\ (config' # shown' => Exists(config', p.at))
  BY DEF SwitchInv, Switched, On, Off, Ops, Commit, Interfere, Refetch, vars
<1>1. form.open => form.edits
  BY SwitchedCases
<1>2. CASE Commit
  <2>1. queue' = <<>> /\ form' = Rendered(shown', queue') /\ shown' = config'
    BY <1>2 DEF Commit
  <2> QED
    BY <1>1, <2>1, RenderedEmpty
<1>3. CASE Interfere
  <2>1. shown' = shown /\ queue' = queue /\ form' = form /\ config' = {Elsewhere} \cup Filled(p, Theirs)
    BY <1>3 DEF Interfere
  <2>2. Exists(config', p.at)
    BY <2>1, SwitchPage, FilledExists
  <2> QED
    BY <2>1, <2>2 DEF SwitchInv
<1>4. CASE Refetch
  <2>1. shown' = config /\ config' = config /\ queue' = queue /\ form' = Rendered(shown', queue') /\ Exists(config, p.at)
    BY <1>4 DEF Refetch, SwitchInv
  <2>2. \A q : On(shown, q) => On(shown', q)
    BY <2>1 DEF On
  <2>3. CASE form.open
    BY <1>1, <2>1, <2>2, <2>3, SwitchedCases, RenderedOn
  <2>4. CASE Off(shown, queue)
    <3>1. Off(shown', queue')
      BY <2>1, <2>2, <2>4 DEF Off
    <3>2. ~EnabledAfter(shown', queue')
      BY <3>1, OffIsDisabled
    <3> QED
      BY <2>1, <3>1, <3>2, RenderedOff
  <2>5. CASE queue = <<>>
    BY <1>1, <2>1, <2>5, RenderedEmpty
  <2>6. Switched(shown', queue', form')
    BY <2>3, <2>4, <2>5, SwitchedCases
  <2> QED
    BY <2>1, <2>6
<1>5. CASE UNCHANGED vars
  BY <1>5 DEF vars, SwitchInv
<1> QED
  BY <1>2, <1>3, <1>4, <1>5

(* The invariant implies the property. *)
LEMMA SwitchIsTrue ==
  ASSUME GatesAreOwn
  PROVE  TypeInv /\ SwitchInv => ToggleIsTrue
<1> SUFFICES ASSUME TypeInv, SwitchInv, p.use = "gated"
             PROVE  EnabledAfter(shown, queue) <=> Exists(AfterOps(shown, queue, ListPaths(p)), p.at)
  BY DEF ToggleIsTrue
<1>1. p.at \in Place /\ NoValue \in Leaves(p) /\ shown \in Configs(Leaves(p))
  BY SwitchPage DEF TypeInv
<1>2. CASE form.open
  <2>1. On(shown, queue) /\ EnabledAfter(shown, queue)
    BY <1>2, SwitchedCases
  <2>2. Exists(AfterOps(shown, queue, ListPaths(p)), p.at)
    BY <1>1, <2>1, NodeIsKept DEF On, Ops
  <2> QED
    BY <2>1, <2>2
<1>3. CASE Off(shown, queue)
  <2>1. ~EnabledAfter(shown, queue)
    BY <1>3, OffIsDisabled
  <2>2. queue \in Seq(OpsAt(Place, Leaves(p))) /\ queue # <<>> /\ queue[Len(queue)] = DeleteNode(p.at)
    BY <1>3, OffIs DEF TypeInv
  <2>3. ~Exists(AfterOps(shown, queue, ListPaths(p)), p.at)
    BY <1>1, <2>2, NodeIsRemoved
  <2> QED
    BY <2>1, <2>3
<1>4. CASE queue = <<>>
  BY <1>1, <1>4, EmptyIsAsShown, NoOps
<1> QED
  BY <1>2, <1>3, <1>4, SwitchedCases

(***************************************************************************)
(* The Enable and Disable buttons tell what a commit would do, in every    *)
(* component whose buttons queue its own node: of the two that queue the   *)
(* node above, the run enable_l2tp shows that they do not.                 *)
(***************************************************************************)
THEOREM TogglesAreTrue ==
  ASSUME GatesAreOwn
  PROVE  Spec => []ToggleIsTrue
<1>1. TypeInv /\ SwitchInv /\ [Next]_vars => SwitchInv'
  BY ButtonsSwitch, OpenSwitch, SaveSwitch, ChipsSwitch, WorldSwitch DEF Next
<1>2. TypeInv /\ SwitchInv => ToggleIsTrue
  BY SwitchIsTrue
<1>3. Init => SwitchInv
  BY InitSwitchInv
<1> QED
  BY <1>1, <1>2, <1>3, TypeInvariant, PTL DEF Spec
=============================================================================
