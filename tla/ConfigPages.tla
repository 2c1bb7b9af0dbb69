------------------------------ MODULE ConfigPages ------------------------------
(***************************************************************************)
(* One administrator edits one component of the client: types into its     *)
(* form, saves, adds and removes chips and entries, enables and disables,  *)
(* commits; another administrator changes the same part of the             *)
(* configuration once.  Which component it is, of all those in Pages, and  *)
(* what the configuration held at first is chosen in Init.                 *)
(*                                                                         *)
(* `shown` is what the client fetched last.  The histories say what the    *)
(* user was told to expect of the next commit and what the user touched    *)
(* since the last one.                                                     *)
(***************************************************************************)
EXTENDS Forms

CONSTANTS Pages,         \* the components
          MaxTouched,    \* bounds: fields touched between two commits,
          MaxGestures,   \* clicks of the user,
          MaxCommits,    \* commits,
          MaxChanges     \* changes of the other administrator

ASSUME PagesAssumption == \A i \in DOMAIN Pages : WellFormed(Pages[i])

VARIABLES p,        \* the component, which never changes
          config,   \* the running configuration
          shown,    \* the configuration as last fetched
          queue,    \* usePendingChangesStore
          form,     \* the component's local state
          asked,    \* history: the fields saved since the last commit, with what they must show
          touched,  \* history: the paths of the fields touched since the last commit
          bound     \* how many gestures, commits and changes there were

vars == <<p, config, shown, queue, form, asked, touched, bound>>

None == [f \in {} |-> Blank]     \* no field
Elsewhere == Node(<<"elsewhere">>, Old)

(* What a literal is, the provers do not know.                             *)
ASSUME StringsAssumption == {"else", "elsewhere"} \subseteq STRING

(* Everything the component reads, with one value everywhere.              *)
Filled(section, text) ==
  LET at(f) == CASE section.type[f].is = "flag" -> {Node(section.at \o section.reads[f], NoValue)}
                 [] section.type[f].is = "has" -> {Node(section.at \o path, text) : path \in section.reads[f]}
                 [] OTHER -> {Node(section.at \o section.reads[f], text)}
  IN (UNION {at(f) : f \in DOMAIN section.type}) \cup {Node(section.at, NoValue), Node(section.at \o <<"else">>, Old)}

-----------------------------------------------------------------------------
(* What the component renders.                                             *)

(* Without the pending operations, and without starting again: mistakes    *)
(* one could make in the two definitions that follow, for the mutants.     *)
EnabledAsFetched(config_, queue_) == Exists(config_, p.at)

(* withPendingEnable.                                                      *)
EnabledAfter(config_, queue_) ==
  ~HasPendingDelete(queue_, p.gate) /\ (Exists(config_, p.at) \/ HasPendingSet(queue_, p.gate))

Closed == [open |-> FALSE, edits |-> FALSE, values |-> None, typed |-> {}]
Fresh(values, edits) == [open |-> TRUE, edits |-> edits, values |-> values, typed |-> {}]

RenderedKeeping(shown_, queue_) ==
  LET there == CASE p.use = "settings" -> TRUE
                 [] p.use = "gated" -> EnabledAfter(shown_, queue_)
                 [] OTHER -> form.open /\ (form.edits => Exists(shown_, p.at))
  IN CASE ~there -> Closed
       [] there /\ ~form.open -> Fresh(FormValues(p, shown_), TRUE)
       [] OTHER -> form

(* The form after the store or the fetched configuration changed: one that *)
(* was not there starts, one whose place is gone goes, and useBaselineState *)
(* starts again when the values it begins with have changed.               *)
Rendered(shown_, queue_) ==
  LET baseline == FormValues(p, shown_)
      there == CASE p.use = "settings" -> TRUE
                 [] p.use = "gated" -> EnabledAfter(shown_, queue_)
                 [] OTHER -> form.open /\ (form.edits => Exists(shown_, p.at))
  IN CASE ~there -> Closed
       [] there /\ ~form.open -> Fresh(baseline, TRUE)
       [] there /\ form.open /\ p.keeps = "baseline" /\ baseline # FormValues(p, shown) -> Fresh(baseline, TRUE)
       [] OTHER -> form

Init ==
  /\ \E i \in DOMAIN Pages : p = Pages[i]
  /\ config \in {{Elsewhere}, {Elsewhere} \cup Filled(p, Old)}
  /\ shown = config
  /\ queue = <<>>
  /\ form = IF p.use = "settings" \/ (p.use = "gated" /\ Exists(shown, p.at)) THEN Fresh(FormValues(p, shown), TRUE)
            ELSE Closed
  /\ asked = None
  /\ touched = {}
  /\ bound = [gestures |-> 0, commits |-> 0, changes |-> 0]

Counted(what, max) == bound[what] < max /\ bound' = [bound EXCEPT ![what] = @ + 1]
Gesture == Counted("gestures", MaxGestures) /\ UNCHANGED <<p, config, shown>>

(* Whether an operation that decides about a path is queued already.       *)
Queued(path) == \E i \in DOMAIN queue : queue[i].path = path \/ (queue[i].op = "delete" /\ IsPrefix(queue[i].path, path))

Within(paths) ==
  Cardinality((touched \cup paths \cup {p.at \o p.form[f].path : f \in form.typed}) \ {p.at, p.gate}) <= MaxTouched

-----------------------------------------------------------------------------
(* The buttons for the node itself.                                        *)

Press(op) ==
  /\ queue' = Add(queue, op)
  /\ form' = Rendered(shown, queue')
  /\ asked' = None
  /\ touched' = touched \cup {op.path}

Enable == p.use = "gated" /\ ~EnabledAfter(shown, queue) /\ Press(SetNode(p.gate)) /\ Gesture

Disable == p.use = "gated" /\ EnabledAfter(shown, queue) /\ Press(DeleteNode(p.gate)) /\ Gesture

RemoveEntry == p.use \in {"adds", "edits", "panels", "items"} /\ Exists(shown, p.at) /\ Press(DeleteNode(p.at)) /\ Gesture

-----------------------------------------------------------------------------
(* The form.                                                               *)

OpenCreate ==
  /\ p.use \in {"adds", "items"} /\ ~form.open
  /\ form' = Fresh(FormValues(p, {}), FALSE)
  /\ UNCHANGED <<queue, asked, touched>> /\ Gesture

OpenEdit ==
  /\ p.use \in {"edits", "panels", "items"} /\ ~form.open /\ Exists(shown, p.at)
  /\ form' = Fresh(FormValues(p, shown), TRUE)
  /\ UNCHANGED <<queue, asked, touched>> /\ Gesture

Cancel ==
  /\ p.use \in {"adds", "edits", "panels", "items"} /\ form.open
  /\ form' = Closed
  /\ UNCHANGED <<queue, asked, touched>> /\ Gesture

ShownKind(f) == p.type[FieldShown(p, f)]

Inputs(f) ==
  CASE p.form[f].is = "flag" -> BOOLEAN
    [] p.form[f].is = "list" -> {{}, {New}, {Old, New}}
    [] OTHER -> {Spaces, Padded} \cup (IF ShownKind(f).is = "number" THEN {Word} ELSE {})

Type ==
  /\ form.open
  /\ \E f \in DOMAIN p.form \ form.typed : \E value \in Inputs(f) \ {form.values[f]} :
       /\ Within({p.at \o p.form[f].path})
       /\ form' = [form EXCEPT !.values[f] = value, !.typed = @ \cup {f}]
  /\ UNCHANGED <<queue, asked, touched>> /\ Gesture

(* What a saved field must show: the flag, the values, whether there is a  *)
(* secret, the text (trimmed, unless the field is raw) or what stands for  *)
(* an unset one; of a number, what is none counts as unset.                *)
Expected(f) ==
  LET write == p.form[f]  value == form.values[f]  kind == ShownKind(f)
      text == CASE write.is = "raw" -> value [] trim(value) = Blank -> write.blank [] OTHER -> trim(value)
  IN CASE write.is \in {"flag", "list"} -> value
       [] write.is = "secret" -> trim(value) # Blank \/ (p.use # "adds" /\ form.edits /\ Parsed(p, shown)[FieldShown(p, f)])
       [] kind.is = "list" -> {text} \ {Blank}
       [] kind.is = "text" -> IF text = Blank THEN kind.unset ELSE text
       [] kind.is = "number" -> CASE text \in {Blank, Word} -> kind.unset [] text = Spaces -> Zero [] OTHER -> trim(text)

(* save(): the form is compared with what the client shows now, and the    *)
(* operations are queued.  Only a form of its own place stays open.  The   *)
(* user may expect a field to show what was saved unless an operation for  *)
(* it was queued before, which a second save does not take back.           *)
Save ==
  /\ form.open
  /\ \A f \in p.needs : trim(form.values[f]) # Blank
  /\ ~form.edits => ~Exists(shown, p.at)
  /\ \E first \in {<<>>} \cup (IF form.edits THEN {} ELSE {p.starts}) :
     LET ops == FormToOps(p, IF form.edits THEN shown ELSE {}, form.values) \o first
         path(f) == p.at \o p.form[f].path
         again == {f \in form.typed : Queued(path(f))}
     IN /\ queue' = AddAll(queue, ops)
        /\ asked' = IF shown # config THEN None
                    ELSE LET saved == {FieldShown(p, f) : f \in form.typed \ again}
                             old == DOMAIN asked \ {FieldShown(p, f) : f \in again}
                         IN [g \in saved \cup old |->
                               IF g \in saved THEN Expected(CHOOSE f \in form.typed : FieldShown(p, f) = g) ELSE asked[g]]
        /\ touched' = touched \cup {path(f) : f \in form.typed} \cup {first[i].path : i \in DOMAIN first}
                      \cup (IF form.edits THEN {} ELSE {p.at})
        /\ form' = IF p.use \in {"settings", "gated", "panels"} THEN form ELSE Closed
  /\ Gesture

-----------------------------------------------------------------------------
(* ChipList and the flags that are queued at once.  A chip is of the list  *)
(* as it was fetched, whatever is queued.                                  *)

ChipsShown == \/ p.use = "settings" \/ (p.use = "gated" /\ form.open)
              \/ p.use \in {"adds", "edits", "panels", "items"} /\ Exists(shown, p.at)

Chip(f, op, value) ==
  /\ Within({op.path})
  /\ queue' = Add(queue, op)
  /\ asked' = IF shown # config \/ Queued(op.path) THEN [g \in DOMAIN asked \ {f} |-> asked[g]]
              ELSE [g \in DOMAIN asked \cup {f} |-> IF g = f THEN value ELSE asked[g]]
  /\ touched' = touched \cup {op.path}
  /\ UNCHANGED form /\ Gesture

AddChip ==
  \E f \in DOMAIN p.chips : LET values == Parsed(p, shown)[f] IN
    /\ ChipsShown /\ p.type[f].is = "list" /\ New \notin values
    /\ Chip(f, SetOp(p.at \o p.chips[f], New), values \cup {New})

RemoveChip ==
  \E f \in DOMAIN p.chips : LET values == Parsed(p, shown)[f] IN
    /\ ChipsShown /\ p.type[f].is = "list"
    /\ \E text \in values : Chip(f, DeleteOp(p.at \o p.chips[f], text), values \ {text})

Toggle ==
  \E f \in DOMAIN p.chips : LET on == Parsed(p, shown)[f] IN
    /\ ChipsShown /\ p.type[f].is = "flag"
    /\ Chip(f, IF on THEN DeleteNode(p.at \o p.chips[f]) ELSE SetNode(p.at \o p.chips[f]), ~on)

-----------------------------------------------------------------------------
(* The rest of the world.                                                  *)

(* The changeset is committed and everything is fetched again.             *)
Commit ==
  /\ queue # <<>>
  /\ config' = AfterOps(config, queue, ListPaths(p))
  /\ shown' = config'
  /\ queue' = <<>>
  /\ form' = Rendered(shown', queue')
  /\ asked' = None
  /\ touched' = {}
  /\ Counted("commits", MaxCommits) /\ UNCHANGED p

(* Another administrator fills in the component.                           *)
Interfere ==
  /\ config' = {Elsewhere} \cup Filled(p, Theirs)
  /\ asked' = None
  /\ Counted("changes", MaxChanges) /\ UNCHANGED <<p, shown, queue, form, touched>>

Refetch ==
  /\ shown # config
  /\ shown' = config
  /\ form' = Rendered(shown', queue)
  /\ UNCHANGED <<p, config, queue, asked, touched, bound>>

Next == \/ Enable \/ Disable \/ RemoveEntry \/ OpenCreate \/ OpenEdit \/ Cancel \/ Type \/ Save
        \/ AddChip \/ RemoveChip \/ Toggle \/ Commit \/ Interfere \/ Refetch

Spec == Init /\ [][Next]_vars

-----------------------------------------------------------------------------
(* The configuration and the queue hold the texts of the component only: a *)
(* text with spaces at its ends is queued by a component with raw fields   *)
(* and by no other, and what is no number by one that asks for numbers.    *)
TypeOK ==
  /\ config \subseteq [path : Path, val : Leaves(p)] /\ shown \subseteq [path : Path, val : Leaves(p)]
  /\ queue \in Seq([op : {"set", "delete"}, path : Path, val : Leaves(p)])
  /\ form.open => DOMAIN form.values = DOMAIN p.form /\ form.typed \subseteq DOMAIN p.form
  /\ DOMAIN asked \subseteq DOMAIN p.type
  /\ touched \subseteq Path
  /\ bound \in [gestures : Nat, commits : Nat, changes : Nat]

(* What the user saved is what the component shows after the commit: form  *)
(* and parser agree on the place and the meaning of every field.           *)
SavedIsShown ==
  [][Commit => \A f \in DOMAIN asked : Parsed(p, shown')[f] = asked[f]]_vars

(* An operation is queued for what the user touched and for nothing else:  *)
(* a form left open while the configuration changes does not bring back    *)
(* what it showed before (hooks/useBaselineState.ts).                      *)
OnlyTouchedEver == \A i \in DOMAIN queue : queue[i].path \in touched

(* The same of the forms that start again with their baseline, and of all  *)
(* of them as long as nobody changes the configuration: any other form may *)
(* be left open over the user's own commit, too.                           *)
OnlyTouchedIsQueued == p.keeps = "baseline" \/ bound.changes + bound.commits = 0 => OnlyTouchedEver

(* The buttons tell what a commit would do: the component is shown as      *)
(* enabled exactly when the node would then be there                       *)
(* (store/pendingChanges.ts, withPendingEnable).                           *)
ToggleIsTrue ==
  p.use = "gated" /\ shown = config => (EnabledAfter(shown, queue) <=> Exists(AfterOps(shown, queue, ListPaths(p)), p.at))

(* The buttons queue operations for the node that the component is about.  *)
GatesAreOwn == \A i \in DOMAIN Pages : Pages[i].use = "gated" => Pages[i].gate = Pages[i].at
=============================================================================
