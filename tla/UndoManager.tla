---------------------------- MODULE UndoManager ----------------------------
(* The undo managers of one document (_undo.py): the document's own, which *)
(* records every commit, and one for each client of a session with the     *)
(* "per-client" policy, which records the commits that client asked for    *)
(* (_session.py).  A step of this module is one transaction: nothing in it *)
(* awaits, and a manager is a listener that runs at its end.               *)
(*                                                                         *)
(* The document is a set of nodes with one field each; a field may hold a  *)
(* reference to a node, which keeps that node from being deleted.  An      *)
(* operation on a node is the word of insertions and deletions it is       *)
(* subjected to, of which the first and the last say all (they alternate), *)
(* and the value written to it afterwards.                                 *)
EXTENDS Naturals, Sequences

CONSTANTS
    Nodes,
    Targets,       \* the nodes a field may hold a reference to
    Plain,         \* the other values of a field
    Default,       \* the value a node is created with
    Absent,        \* a node that is not in the document; a field not written
    Clients,
    Host,          \* the document's own manager, and whoever commits outside
                   \* any client's request
    MaxSteps,      \* bound on max_steps
    MaxEdits,      \* bound on the edits users make
    Merging        \* is merge_interval of the document's manager positive?

Values   == Plain \cup Targets
Managers == Clients \cup {Host}

ASSUME UndoAssumption ==
    /\ Targets \subseteq Nodes /\ Plain \cap Nodes = {} /\ Default \in Plain
    /\ Absent \notin Values
    /\ Host \notin Clients
    /\ MaxSteps \in Nat \ {0} /\ MaxEdits \in Nat
    /\ Merging \in BOOLEAN

VARIABLES
    doc,        \* the value of each node
    hist,       \* the undo and redo stack of each manager
    steps,      \* its max_steps
    recent,     \* the last step of the document's manager is so recent that
                \* the next one joins it (_last_update and the clock)
    past,       \* the documents its undo steps started from,
    future,     \* and those its redo steps lead to
    intact,     \* no value has been lost in an inverse or in a merged step
    edits       \* how many edits there have been

vars == <<doc, hist, steps, recent, past, future, intact, edits>>

Top(s)       == s[Len(s)]
Rest(s)      == SubSeq(s, 1, Len(s) - 1)
Newest(s, k) == SubSeq(s, Len(s) - k + 1, Len(s))
Least(a, b)  == IF a < b THEN a ELSE b

-----------------------------------------------------------------------------
(* Operations.                                                             *)
Documents == [Nodes -> Values \cup {Absent}]
Kinds     == {"insert", "delete"}
NoWord    == [first |-> "none", last |-> "none"]
Words     == [first : Kinds, last : Kinds] \cup {NoWord}
Word(x)   == [first |-> x, last |-> x]

Operations == [ordered : [Nodes -> Words], state : [Nodes -> Values \cup {Absent}]]

(* Every reference resolves (_check_ref_integrity). *)
Sound(d) == \A n \in Nodes : d[n] \in Targets => d[d[n]] # Absent

(* on_apply_operations, without strict: a deletion of a node that is not   *)
(* there, or a value for it, is skipped.                                   *)
Apply(it, d) ==
    [n \in Nodes |->
        LET w == it.ordered[n]
            there == IF w = NoWord THEN d[n] # Absent ELSE w.last = "insert"
        IN IF ~there THEN Absent
           ELSE IF it.state[n] # Absent THEN it.state[n]
           ELSE IF w = NoWord THEN d[n] ELSE Default]

(* Mutant: references are not checked. *)
AppliesUnchecked(it, d) ==
    \A n \in Nodes : it.ordered[n].first = "insert" => d[n] = Absent

(* A node that is inserted must not exist, and references must resolve. *)
Applies(it, d) ==
    /\ \A n \in Nodes : it.ordered[n].first = "insert" => d[n] = Absent
    /\ Sound(Apply(it, d))

(* maybe_trigger_listeners: is there anything to tell the listeners?  A    *)
(* node that is deleted and inserted again counts as changed.              *)
Changes(it, d) ==
    \E n \in Nodes :
        \/ Apply(it, d)[n] # d[n]
        \/ it.ordered[n] # NoWord /\ d[n] # Absent /\ it.ordered[n].last = "insert"

(* Mutant: the value a deleted node had is not recorded. *)
InverseOfForgetful(it, d) ==
    LET a == Apply(it, d) IN
    [ordered |-> [n \in Nodes |->
        IF it.ordered[n] = NoWord \/ (d[n] = Absent /\ a[n] = Absent) THEN NoWord
        ELSE [first |-> IF a[n] = Absent THEN "insert" ELSE "delete",
              last  |-> IF d[n] = Absent THEN "delete" ELSE "insert"]],
     state |-> [n \in Nodes |->
        IF d[n] = a[n] \/ a[n] = Absent THEN Absent ELSE d[n]]]

(* The inverse the transaction records, as its change event delivers it.   *)
(* The value a deleted node had is recorded unless it is the default, and  *)
(* dropped again when the node is back at it.                              *)
InverseOf(it, d) ==
    LET a == Apply(it, d) IN
    [ordered |-> [n \in Nodes |->
        IF it.ordered[n] = NoWord \/ (d[n] = Absent /\ a[n] = Absent) THEN NoWord
        ELSE [first |-> IF a[n] = Absent THEN "insert" ELSE "delete",
              last  |-> IF d[n] = Absent THEN "delete" ELSE "insert"]],
     state |-> [n \in Nodes |->
        IF d[n] = a[n] \/ (d[n] = Default /\ a[n] = Absent) THEN Absent ELSE d[n]]]

(* A node is deleted, inserted again and given the value it had: the       *)
(* inverse, which deletes and inserts it too, does not have that value.    *)
Loses(it, d) ==
    \E n \in Nodes : /\ it.ordered[n] # NoWord /\ d[n] \notin {Absent, Default}
                     /\ Apply(it, d)[n] = d[n]

(* Mutant: the values of the newer step win. *)
MergeNewest(newer, older) ==
    [ordered |-> [n \in Nodes |->
        IF newer.ordered[n] = NoWord THEN older.ordered[n]
        ELSE IF older.ordered[n] = NoWord THEN newer.ordered[n]
        ELSE [first |-> newer.ordered[n].first, last |-> older.ordered[n].last]],
     state |-> [n \in Nodes |->
        IF newer.state[n] # Absent THEN newer.state[n] ELSE older.state[n]]]

(* merge_operations: the newer inverse is applied first, and the values of *)
(* the older one win.                                                      *)
Merge(newer, older) ==
    [ordered |-> [n \in Nodes |->
        IF newer.ordered[n] = NoWord THEN older.ordered[n]
        ELSE IF older.ordered[n] = NoWord THEN newer.ordered[n]
        ELSE [first |-> newer.ordered[n].first, last |-> older.ordered[n].last]],
     state |-> [n \in Nodes |->
        IF older.state[n] # Absent THEN older.state[n] ELSE newer.state[n]]]

(* The older step inserts a node without a value, the default that is to   *)
(* say; the newer one has a value for the node, which is not overwritten.  *)
Confuses(newer, older) ==
    \E n \in Nodes : /\ older.ordered[n].last = "insert" /\ older.state[n] = Absent
                     /\ newer.state[n] \notin {Absent, Default}

(* The edits that users make: one insertion, deletion or value. *)
Nothing == [n \in Nodes |-> Absent]
NoWords == [n \in Nodes |-> NoWord]

Insertion(n, v) == [ordered |-> [NoWords EXCEPT ![n] = Word("insert")],
                    state   |-> [Nothing EXCEPT ![n] = v]]
Deletion(n)     == [ordered |-> [NoWords EXCEPT ![n] = Word("delete")],
                    state   |-> Nothing]
Setting(n, v)   == [ordered |-> NoWords, state |-> [Nothing EXCEPT ![n] = v]]

Edits == {Insertion(n, v) : n \in Nodes, v \in Values}
           \cup {Deletion(n) : n \in Nodes}
           \cup {Setting(n, v) : n \in Nodes, v \in Values}

-----------------------------------------------------------------------------
Init ==
    /\ doc = [n \in Nodes |-> Default]
    /\ hist = [m \in Managers |-> [undo |-> <<>>, redo |-> <<>>]]
    /\ steps \in [Managers -> 1..MaxSteps]
    /\ recent = FALSE
    /\ past = <<>> /\ future = <<>>
    /\ intact = TRUE
    /\ edits = 0

(* The filter of a client's manager, and the lack of one of the host's. *)
Accepts(m, a) == m = Host \/ m = a

Joins(m) == m = Host /\ recent /\ hist[m].undo # <<>>

(* Mutant: redo survives a new step. *)
RecordedKeepingRedo(m, inv) ==
    [undo |-> IF Joins(m)
                THEN [hist[m].undo EXCEPT ![Len(hist[m].undo)] = Merge(inv, @)]
                ELSE Append(IF Len(hist[m].undo) >= steps[m]
                              THEN Tail(hist[m].undo) ELSE hist[m].undo, inv),
     redo |-> hist[m].redo]

(* _on_change of a manager that accepts the commit of an edit. *)
Recorded(m, inv) ==
    [undo |-> IF Joins(m)
                THEN [hist[m].undo EXCEPT ![Len(hist[m].undo)] = Merge(inv, @)]
                ELSE Append(IF Len(hist[m].undo) >= steps[m]
                              THEN Tail(hist[m].undo) ELSE hist[m].undo, inv),
     redo |-> <<>>]

(* The same for the auxiliary variables of the document's manager. *)
RememberEdit(it) ==
    /\ intact' = (/\ intact /\ ~Loses(it, doc)
                  /\ Joins(Host) => ~Confuses(InverseOf(it, doc),
                                              Top(hist[Host].undo)))
    /\ past' = IF Joins(Host) THEN past
               ELSE Append(IF Len(past) >= steps[Host] THEN Tail(past) ELSE past,
                           doc)
    /\ future' = <<>>

Sides == {"undo", "redo"}

Other(side) == IF side = "undo" THEN "redo" ELSE "undo"

(* A commit m asked for, which leaves m's own stacks as filed and is an    *)
(* edit like any other to the other managers that accept it.               *)
Commit(m, it, filed) ==
    /\ doc' = Apply(it, doc)
    /\ hist' = [o \in Managers |->
                   IF o = m THEN filed
                   ELSE IF Accepts(o, m) THEN Recorded(o, InverseOf(it, doc))
                   ELSE hist[o]]

(* The auxiliary variables when the document's manager takes a step. *)
Retrace(side, commits) ==
    IF side = "undo"
      THEN /\ past' = Rest(past)
           /\ future' = IF commits THEN Append(future, doc) ELSE future
      ELSE /\ future' = Rest(future)
           /\ past' = IF commits THEN Append(past, doc) ELSE past

(* A transaction of the host, or of a client's request. *)
Edit(a) ==
    /\ edits < MaxEdits /\ edits' = edits + 1
    /\ \E it \in Edits :
           /\ Applies(it, doc) /\ Changes(it, doc)
           /\ Commit(a, it, Recorded(a, InverseOf(it, doc)))
           /\ recent' = Merging
           /\ RememberEdit(it)
           /\ UNCHANGED steps

(* The window in which edits are merged passes. *)
Pause ==
    /\ recent /\ recent' = FALSE
    /\ UNCHANGED <<doc, hist, steps, past, future, intact, edits>>

(* undo() and redo(): m's newest step on that side is refused and kept; or *)
(* it finds nothing to commit and is gone; or it commits, and its inverse  *)
(* is filed on the other side.                                             *)
Step(m, side) ==
    LET it == Top(hist[m][side])
        taken == [hist[m] EXCEPT ![side] = Rest(@)]
        filed == [taken EXCEPT ![Other(side)] = Append(@, InverseOf(it, doc))]
    IN
    /\ hist[m][side] # <<>>
    /\ UNCHANGED <<steps, edits>>
    /\ \/ /\ ~Applies(it, doc)
          /\ recent' = (recent /\ m # Host)
          /\ UNCHANGED <<doc, hist, past, future, intact>>
       \/ /\ Applies(it, doc) /\ ~Changes(it, doc)
          /\ hist' = [hist EXCEPT ![m] = taken]
          /\ recent' = (recent /\ m # Host)
          /\ IF m = Host THEN Retrace(side, FALSE) ELSE UNCHANGED <<past, future>>
          /\ UNCHANGED <<doc, intact>>
       \/ /\ Applies(it, doc) /\ Changes(it, doc)
          /\ Commit(m, it, filed)
          /\ recent' = (Merging /\ m # Host)
          /\ IF m = Host THEN /\ Retrace(side, TRUE)
                              /\ intact' = (intact /\ ~Loses(it, doc))
             ELSE RememberEdit(it)

Undo(m) == Step(m, "undo")
Redo(m) == Step(m, "redo")

NoHistory == [undo |-> <<>>, redo |-> <<>>]

(* clear(); a client that leaves takes its manager along. *)
Clear(m) ==
    /\ hist' = [hist EXCEPT ![m] = NoHistory]
    /\ recent' = (recent /\ m # Host)
    /\ IF m = Host THEN past' = <<>> /\ future' = <<>>
                   ELSE UNCHANGED <<past, future>>
    /\ UNCHANGED <<doc, steps, intact, edits>>

Cut(s, k) == Newest(s, Least(Len(s), k))

(* The document is restored from its dump, in another process maybe, and   *)
(* the exported history imported by a manager with its own max_steps.  The *)
(* clients start again.                                                    *)
Transfer ==
    \E k \in 1..MaxSteps :
        /\ steps' = [steps EXCEPT ![Host] = k]
        /\ hist' = [m \in Managers |->
                       IF m = Host THEN [undo |-> Cut(hist[m].undo, k),
                                         redo |-> Cut(hist[m].redo, k)]
                       ELSE NoHistory]
        /\ past' = Cut(past, k) /\ future' = Cut(future, k)
        /\ UNCHANGED <<doc, recent, intact, edits>>

Next ==
    \/ \E m \in Managers : Edit(m) \/ Undo(m) \/ Redo(m) \/ Clear(m)
    \/ Pause \/ Transfer

Spec == Init /\ [][Next]_vars

-----------------------------------------------------------------------------
(* Types; every document on record is one whose references resolve. *)
TypeOK ==
    /\ doc \in Documents /\ Sound(doc)
    /\ hist \in [Managers -> [undo : Seq(Operations), redo : Seq(Operations)]]
    /\ steps \in [Managers -> 1..MaxSteps] /\ recent \in BOOLEAN
    /\ past \in Seq(Documents) /\ future \in Seq(Documents)
    /\ intact \in BOOLEAN
    /\ edits \in 0..MaxEdits

Line == INSTANCE Timeline WITH Docs <- Documents, present <- doc

(* past and future go along with the stacks. *)
InStep ==
    /\ Len(past) = Len(hist[Host].undo)
    /\ Len(future) = Len(hist[Host].redo)

(* The document's manager records every commit, so that its history is     *)
(* exact, for as long as no commit lost a value: undo leads to the         *)
(* document before the step, redo to the one after it, however steps were  *)
(* merged, truncated or made by clients.                                   *)
Retraces ==
    /\ Line!Init
    /\ [][intact' => Line!Next]_<<past, doc, future>>
    /\ [](intact => InStep)

(* No step of a history that records everything is ever refused. *)
NeverRefused ==
    \A side \in Sides :
        intact /\ hist[Host][side] # <<>> => Applies(Top(hist[Host][side]), doc)

Reverts(it, d) ==
    /\ Applies(InverseOf(it, d), Apply(it, d))
    /\ Apply(InverseOf(it, d), Apply(it, d)) = d

(* Whatever others did since: a step a manager can take back (or forth)    *)
(* can be reverted to the very document it was taken in, so that a user    *)
(* who presses undo once too often only has to press redo.                 *)
Reversible ==
    \A m \in Managers, side \in Sides :
        LET it == Top(hist[m][side]) IN
        hist[m][side] # <<>> /\ Applies(it, doc) => Reverts(it, doc) \/ Loses(it, doc)
=============================================================================
