---------------------------- MODULE MemoryStore ----------------------------
(***************************************************************************)
(* The in-memory store of python/src/atomdoc/_store.py, for one key.  No   *)
(* method awaits while it holds the lock, so a call is one step; it starts *)
(* earlier, and may be cancelled while it waits.  An expired entry is      *)
(* evicted by whoever looks at it.                                         *)
(***************************************************************************)
EXTENDS Naturals

CONSTANTS Calls, Kinds, Anything, MaxTime, MaxTtl

ASSUME MemoryStoreAssumption ==
    /\ MaxTime \in Nat /\ MaxTtl \in Nat
    /\ Anything \notin Nat
    /\ Kinds \subseteq {"put", "touch", "delete", "read"}

VARIABLES now, items, used, call, since, seen, outcome, state, writes

(* What this store is to implement. *)
Store == INSTANCE DocumentStore WITH doc <- items

vars == <<now, items, used, call, since, seen, outcome, state, writes>>

(* The dictionary is empty, unless a first document was stored before. *)
Init == Store!Init /\ writes = 1

Tick == Store!Tick /\ UNCHANGED writes

Begin(c, r) == Store!Begin(c, r) /\ UNCHANGED writes

(* _live: the entry, evicted if it has expired. *)
Entry == IF Store!Live(items, now) THEN items ELSE Store!NoDoc

Answer(c, o) ==
    /\ state[c] = "called"
    /\ outcome' = [outcome EXCEPT ![c] = o]
    /\ state' = [state EXCEPT ![c] = "returned"]
    /\ UNCHANGED <<now, call, since>>

Look(c) == items' = Entry /\ UNCHANGED <<used, writes>>

Found(c) == seen' = [seen EXCEPT ![c] = items']

Expiry(c) == IF call[c].ttl = 0 THEN 0 ELSE now + call[c].ttl

(* Mutant: the entry is not looked at, only its token: expired ones match. *)
StaleByToken(c) ==
    /\ call[c].match \notin {Anything, items.token}
    /\ call[c].kind = "touch" => Entry.token # 0

Stale(c) ==
    /\ call[c].match \notin {Anything, Entry.token}
    /\ call[c].kind = "touch" => Entry.token # 0

Refuse(c) ==
    /\ Stale(c)
    /\ Look(c) /\ UNCHANGED seen
    /\ Answer(c, "stale")

Put(c) ==
    /\ call[c].kind = "put" /\ ~Stale(c)
    /\ writes' = writes + 1
    /\ items' = [token |-> writes + 1, expires |-> Expiry(c)]
    /\ used' = used \cup {writes + 1}
    /\ Found(c)
    /\ Answer(c, "ok")

Touch(c) ==
    /\ call[c].kind = "touch" /\ ~Stale(c) /\ Entry.token # 0
    /\ items' = [items EXCEPT !.expires = Expiry(c)]
    /\ Found(c)
    /\ UNCHANGED <<used, writes>>
    /\ Answer(c, "ok")

Delete(c) ==
    /\ call[c].kind = "delete" /\ ~Stale(c)
    /\ items' = Store!NoDoc
    /\ UNCHANGED <<used, seen, writes>>
    /\ Answer(c, IF Entry.token # 0 THEN "ok" ELSE "missing")

Read(c) ==
    /\ call[c].kind = "read" /\ Entry.token # 0
    /\ Look(c) /\ Found(c)
    /\ Answer(c, "ok")

NotFound(c) ==
    /\ call[c].kind \in {"read", "touch"} /\ Entry.token = 0
    /\ Look(c) /\ UNCHANGED seen
    /\ Answer(c, "missing")

(* A listing evicts as well. *)
List ==
    /\ items' = Entry
    /\ UNCHANGED <<now, used, call, since, seen, outcome, state, writes>>

(* Cancelled while waiting for the lock. *)
Cancel(c) ==
    /\ state[c] = "called"
    /\ state' = [state EXCEPT ![c] = "failed"]
    /\ UNCHANGED <<now, items, used, call, since, seen, outcome, writes>>

Next ==
    \/ Tick \/ List
    \/ \E c \in Calls :
         \/ \E r \in Store!Requests : Begin(c, r)
         \/ Refuse(c) \/ Put(c) \/ Touch(c) \/ Delete(c) \/ Read(c)
         \/ NotFound(c) \/ Cancel(c)

Spec == Init /\ [][Next]_vars

-----------------------------------------------------------------------------
(* The store keeps the promises of DocumentStore: in particular a call     *)
(* conditioned on a token succeeds only on an entry that has not expired,  *)
(* and evicting what has expired never takes a fresh document with it.     *)
Implements == Store!Spec
=============================================================================
