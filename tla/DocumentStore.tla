--------------------------- MODULE DocumentStore ---------------------------
(***************************************************************************)
(* What a document store promises to concurrent callers, for one key (keys *)
(* do not interact): every call takes effect at one moment between its     *)
(* start and its end, a conditional call only if its condition held at a   *)
(* moment of the call, a write under a name no write ever had before, and  *)
(* an entry disappears only when it is deleted or has expired.  A call     *)
(* that ends in an exception may or may not have taken effect.             *)
(*                                                                         *)
(* The stores of python/src/atomdoc implement this: MemoryStore, FileStore *)
(* and SqliteStore, each with a refinement to it.                          *)
(***************************************************************************)
EXTENDS Naturals

CONSTANTS
    Calls,      \* calls made of the store, each made once
    Kinds,      \* what they ask for: "put", "touch", "delete", "read", "purge"
    Anything,   \* if_match is None: the call is unconditional
    MaxTime,    \* bound: ticks of the clock
    MaxTtl      \* bound: the longest ttl asked for

VARIABLES
    now,        \* time.time(); the first moment is 1
    doc,        \* the entry stored, expired or not
    used,       \* tokens that have named a write
    call,       \* what each call asks for
    since,      \* when it was made
    seen,       \* the entry it has looked at, or written
    outcome,    \* what it will return, once that is decided
    state       \* "idle", then "called", then "returned" or "failed"

callvars == <<call, since, seen, outcome, state>>
vars     == <<now, doc, used, callvars>>

(* An entry is a token and the moment it expires; 0 is no token, never.    *)
(* ABSENT, the condition that there is nothing, is the token 0.            *)
NoDoc  == [token |-> 0, expires |-> 0]
Absent == 0

Live(e, t) == e.token # 0 /\ (e.expires = 0 \/ t < e.expires)

Held(e, t) == IF Live(e, t) THEN e.token ELSE Absent

NoCall == [kind |-> "none", match |-> Anything, ttl |-> 0]

(* What may be asked: only puts and touches have a ttl (0 is none), touch  *)
(* refuses ABSENT, and a token comes from an earlier read or put.          *)
Requests ==
    {r \in [kind : Kinds, match : used \cup {Absent, Anything}, ttl : 0..MaxTtl] :
        /\ r.kind \notin {"put", "touch"} => r.ttl = 0
        /\ r.kind = "touch" => r.match # Absent
        /\ r.kind \in {"read", "purge"} => r.match = Anything}

-----------------------------------------------------------------------------
Init ==
    /\ now = 1
    /\ doc \in {NoDoc} \cup {[token |-> 1, expires |-> e] : e \in {0} \cup 2..MaxTime}
    /\ used = {doc.token} \ {0}
    /\ call = [c \in Calls |-> NoCall]
    /\ since = [c \in Calls |-> 0]
    /\ seen = [c \in Calls |-> NoDoc]
    /\ outcome = [c \in Calls |-> "none"]
    /\ state = [c \in Calls |-> "idle"]

Tick ==
    /\ now < MaxTime
    /\ now' = now + 1
    /\ UNCHANGED <<doc, used, callvars>>

Begin(c, r) ==
    /\ state[c] = "idle"
    /\ state' = [state EXCEPT ![c] = "called"]
    /\ call' = [call EXCEPT ![c] = r]
    /\ since' = [since EXCEPT ![c] = now]
    /\ UNCHANGED <<now, doc, used, seen, outcome>>

Undecided(c) == state[c] = "called" /\ outcome[c] = "none"

(* The call may return at once. *)
Decide(c, o) ==
    /\ outcome' = [outcome EXCEPT ![c] = o]
    /\ state' \in {state, [state EXCEPT ![c] = "returned"]}
    /\ UNCHANGED <<now, call, since>>

(* The entry was live at a moment of the call. *)
WasLive(c) == doc.token # 0 /\ (doc.expires = 0 \/ since[c] < doc.expires)

(* The condition of the call holds, or its token was current at a moment   *)
(* of the call and only expired since.                                     *)
Matches(c) ==
    \/ call[c].match \in {Anything, Held(doc, now)}
    \/ call[c].match = doc.token /\ WasLive(c)

(* When an entry written during the call expires. *)
Expiries(c) == IF call[c].ttl = 0 THEN {0} ELSE {t + call[c].ttl : t \in since[c]..now}

Put(c) ==
    /\ Undecided(c) /\ call[c].kind = "put" /\ Matches(c)
    /\ doc' \in [token : Nat \ (used \cup {0}), expires : Expiries(c)]
    /\ used' = used \cup {doc'.token}
    /\ seen' = [seen EXCEPT ![c] = doc']
    /\ Decide(c, "ok")

(* A lease is renewed: the token stays. *)
Touch(c) ==
    /\ Undecided(c) /\ call[c].kind = "touch"
    /\ WasLive(c) /\ call[c].match \in {Anything, doc.token}
    /\ \E e \in Expiries(c) : doc' = [doc EXCEPT !.expires = e]
    /\ seen' = [seen EXCEPT ![c] = doc']
    /\ UNCHANGED used
    /\ Decide(c, "ok")

(* Returns True for an entry that was there, False ("missing") otherwise,  *)
(* though an expired entry goes too.                                       *)
Delete(c) ==
    /\ Undecided(c) /\ call[c].kind = "delete" /\ Matches(c)
    /\ doc' = NoDoc
    /\ UNCHANGED <<used, seen>>
    /\ \/ WasLive(c) /\ Decide(c, "ok")
       \/ ~Live(doc, now) /\ Decide(c, "missing")

(* What is stored stays, or is evicted by whoever finds it has expired. *)
Kept == doc' = doc \/ (~Live(doc, now) /\ doc' = NoDoc)

(* StaleWrite *)
Refuse(c) ==
    /\ Undecided(c)
    /\ call[c].match \notin {Anything, Held(doc, now)}
    /\ call[c].kind = "touch" => Live(doc, now)
    /\ Kept /\ UNCHANGED <<used, seen>>
    /\ Decide(c, "stale")

(* DocumentNotFound *)
Missing(c) ==
    /\ Undecided(c) /\ call[c].kind \in {"read", "touch"} /\ ~Live(doc, now)
    /\ Kept /\ UNCHANGED <<used, seen>>
    /\ Decide(c, "missing")

Read(c) ==
    /\ Undecided(c) /\ call[c].kind = "read" /\ Live(doc, now)
    /\ seen' = [seen EXCEPT ![c] = doc]
    /\ UNCHANGED <<doc, used>>
    /\ Decide(c, "ok")

(* A read that looks at the entry first and at the clock later: what it    *)
(* looked at may have expired by then, whatever is stored by then.         *)
Look(c) ==
    /\ Undecided(c) /\ call[c].kind = "read" /\ doc.token # 0
    /\ seen' = [seen EXCEPT ![c] = doc]
    /\ UNCHANGED <<now, doc, used, call, since, outcome, state>>

Conclude(c) ==
    /\ Undecided(c) /\ call[c].kind = "read" /\ seen[c].token # 0
    /\ UNCHANGED <<doc, used, seen>>
    /\ Decide(c, IF Live(seen[c], now) THEN "ok" ELSE "missing")

Purged(c) ==
    /\ Undecided(c) /\ call[c].kind = "purge"
    /\ UNCHANGED <<doc, used, seen>>
    /\ Decide(c, "ok")

(* An expired entry is removed, by a purge or because it was looked at. *)
Expire ==
    /\ doc.token # 0 /\ ~Live(doc, now)
    /\ doc' = NoDoc
    /\ UNCHANGED <<now, used, callvars>>

Return(c) ==
    /\ state[c] = "called" /\ outcome[c] # "none"
    /\ state' = [state EXCEPT ![c] = "returned"]
    /\ UNCHANGED <<now, doc, used, call, since, seen, outcome>>

(* A call raises; the calls of a process that dies end together. *)
Fail(cs) ==
    /\ \A c \in cs : state[c] = "called"
    /\ state' = [c \in Calls |-> IF c \in cs THEN "failed" ELSE state[c]]
    /\ UNCHANGED <<now, doc, used, call, since, seen, outcome>>

Next ==
    \/ Tick \/ Expire
    \/ \E c \in Calls :
         \/ \E r \in Requests : Begin(c, r)
         \/ Put(c) \/ Touch(c) \/ Delete(c) \/ Refuse(c) \/ Missing(c)
         \/ Read(c) \/ Look(c) \/ Conclude(c) \/ Purged(c)
         \/ Return(c)
    \/ \E cs \in SUBSET Calls : Fail(cs)

Spec == Init /\ [][Next]_vars
=============================================================================
