------------------------- MODULE MemoryStoreProofs -------------------------
(***************************************************************************)
(* MemoryStore implements DocumentStore, for any calls, clock and ttl.     *)
(*                                                                         *)
(* The argument needs an invariant: tokens already used and the stored one *)
(* are at most writes (so the next one is new), a call that has not        *)
(* returned is undecided, and it started in the past (so an entry that is  *)
(* live now was live at a moment of the call).  With it every step of the  *)
(* dictionary is one step of the abstract store, or a stutter.             *)
(***************************************************************************)
EXTENDS MemoryStore, TLAPS

Entries  == [token : Nat, expires : Nat]
Outcomes == {"none", "ok", "stale", "missing"}
States   == {"idle", "called", "returned", "failed"}
Asked    == [kind : {"none", "put", "touch", "delete", "read"},
             match : Nat \cup {Anything}, ttl : Nat]

StoredInv ==
    /\ now \in Nat /\ writes \in Nat \ {0}
    /\ items \in Entries /\ items.token <= writes
    /\ items.token = 0 => items = Store!NoDoc
    /\ used \subseteq 0..writes

CallsInv ==
    /\ call \in [Calls -> Asked]
    /\ since \in [Calls -> Nat] /\ \A c \in Calls : since[c] <= now
    /\ seen \in [Calls -> Entries]
    /\ outcome \in [Calls -> Outcomes] /\ state \in [Calls -> States]
    /\ \A c \in Calls : state[c] \in {"idle", "called"} => outcome[c] = "none"

Inv == StoredInv /\ CallsInv

USE MemoryStoreAssumption

(* What _live leaves is what is stored, or nothing once that has expired. *)
LEMMA EntryIs ==
    ASSUME items \in Entries, now \in Nat
    PROVE  /\ Entry \in Entries
           /\ Entry.token = Store!Held(items, now)
           /\ Store!Live(items, now) <=> Entry.token # 0
           /\ Store!Live(items, now) => Entry = items
           /\ ~Store!Live(items, now) => Entry = Store!NoDoc
BY DEF Entry, Store!Held, Store!Live, Store!NoDoc, Store!Absent, Entries

LEMMA InitInv == Init => Inv
<1> SUFFICES ASSUME Init PROVE Inv
  OBVIOUS
<1>1. /\ now = 1 /\ writes = 1 /\ used = {items.token} \ {0}
      /\ items \in {Store!NoDoc} \cup {[token |-> 1, expires |-> e] : e \in {0} \cup 2..MaxTime}
  BY DEF Init, Store!Init
<1>2. /\ items \in Entries /\ items.token \in {0, 1}
      /\ items.token = 0 => items = Store!NoDoc
  BY <1>1 DEF Entries, Store!NoDoc
<1>3. StoredInv
  BY <1>1, <1>2 DEF StoredInv
<1>4. Store!NoCall \in Asked
  BY DEF Store!NoCall, Asked
<1>5. Store!NoDoc \in Entries
  BY DEF Store!NoDoc, Entries
<1>6. CallsInv
  BY <1>1, <1>4, <1>5 DEF Init, Store!Init, CallsInv, Outcomes, States
<1> QED
  BY <1>3, <1>6 DEF Inv

(* A new call. *)
LEMMA BeginStep ==
    ASSUME Inv, NEW c \in Calls, NEW r \in Store!Requests, Begin(c, r)
    PROVE  Inv' /\ Store!Next
<1>1. r \in Asked
  <2>1. r \in [kind : Kinds, match : used \cup {Store!Absent, Anything}, ttl : 0..MaxTtl]
    BY DEF Store!Requests
  <2>2. used \subseteq Nat /\ Store!Absent \in Nat
    BY DEF Inv, StoredInv, Store!Absent
  <2>3. r.kind \in Kinds /\ r.match \in used \cup {Store!Absent, Anything} /\ r.ttl \in 0..MaxTtl
    BY <2>1
  <2>4. r = [kind |-> r.kind, match |-> r.match, ttl |-> r.ttl]
    BY <2>1
  <2>5. r.match \in Nat \cup {Anything}
    BY <2>2, <2>3, ZenonT(30)
  <2>6. r.ttl \in Nat
    BY <2>3
  <2> QED
    BY <2>3, <2>4, <2>5, <2>6 DEF Asked
<1>2. StoredInv'
  BY DEF Inv, StoredInv, Begin, Store!Begin
<1>3. CallsInv'
  BY <1>1 DEF Inv, CallsInv, StoredInv, Begin, Store!Begin, States
<1>4. Store!Next
  BY DEF Begin, Store!Next
<1> QED
  BY <1>2, <1>3, <1>4 DEF Inv

(* An answer leaves the calls in order. *)
LEMMA AnswerInv ==
    ASSUME Inv, NEW c \in Calls, NEW o \in Outcomes, Answer(c, o),
           seen' \in [Calls -> Entries]
    PROVE  CallsInv'
BY DEF Inv, CallsInv, StoredInv, Answer, Outcomes, States

(* An answer decides an undecided call of the abstract store, which        *)
(* returns at once.                                                        *)
LEMMA AnswerDecides ==
    ASSUME Inv, NEW c \in Calls, NEW o \in Outcomes, Answer(c, o)
    PROVE  Store!Undecided(c) /\ Store!Decide(c, o)
BY DEF Inv, CallsInv, Answer, Store!Undecided, Store!Decide

LEMMA RefuseStep ==
    ASSUME Inv, NEW c \in Calls, Refuse(c)
    PROVE  Inv' /\ Store!Refuse(c)
<1>1. items \in Entries /\ now \in Nat /\ items' = Entry /\ now' = now
  BY DEF Refuse, Look, Inv, StoredInv, Answer
<1>2. Answer(c, "stale") /\ seen' = seen /\ used' = used /\ writes' = writes
  BY DEF Refuse, Look
<1>3. StoredInv'
  BY <1>1, <1>2, EntryIs DEF Inv, StoredInv, Store!NoDoc, Entries
<1>4. CallsInv'
  BY <1>2, AnswerInv DEF Outcomes, Inv, CallsInv
<1>5. Store!Kept
  BY <1>1, EntryIs DEF Store!Kept
<1>6. /\ call[c].match \notin {Anything, Store!Held(items, now)}
      /\ call[c].kind = "touch" => Store!Live(items, now)
  BY <1>1, EntryIs DEF Refuse, Stale
<1>7. Store!Refuse(c)
  BY <1>2, <1>5, <1>6, AnswerDecides DEF Outcomes, Store!Refuse
<1> QED
  BY <1>3, <1>4, <1>7 DEF Inv

(* The condition of a call that is not stale holds. *)
LEMMA NotStale ==
    ASSUME Inv, NEW c \in Calls, ~Stale(c), call[c].kind # "touch"
    PROVE  Store!Matches(c)
<1>1. items \in Entries /\ now \in Nat
  BY DEF Inv, StoredInv
<1> QED
  BY <1>1, EntryIs DEF Stale, Store!Matches

LEMMA ExpiryIs ==
    ASSUME Inv, NEW c \in Calls
    PROVE  Expiry(c) \in Nat /\ Expiry(c) \in Store!Expiries(c)
<1>1. call[c].ttl \in Nat /\ now \in Nat /\ since[c] \in Nat /\ since[c] <= now
  BY DEF Inv, StoredInv, CallsInv, Asked
<1>2. now \in since[c]..now
  BY <1>1
<1> QED
  BY <1>1, <1>2 DEF Expiry, Store!Expiries

(* What is live now was live at a moment of the call. *)
LEMMA LiveWasLive ==
    ASSUME Inv, NEW c \in Calls, Store!Live(items, now)
    PROVE  Store!WasLive(c)
<1>1. now \in Nat /\ since[c] \in Nat /\ since[c] <= now /\ items \in Entries
  BY DEF Inv, StoredInv, CallsInv
<1> QED
  BY <1>1 DEF Store!Live, Store!WasLive, Entries

LEMMA PutStep ==
    ASSUME Inv, NEW c \in Calls, Put(c)
    PROVE  Inv' /\ Store!Put(c)
<1> DEFINE e == [token |-> writes + 1, expires |-> Expiry(c)]
<1>1. /\ items' = e /\ writes' = writes + 1 /\ used' = used \cup {writes + 1}
      /\ seen' = [seen EXCEPT ![c] = items'] /\ Answer(c, "ok")
      /\ call[c].kind = "put" /\ ~Stale(c)
  BY DEF Put, Found
<1>2. writes \in Nat /\ now \in Nat /\ now' = now /\ used \subseteq 0..writes
  BY <1>1 DEF Inv, StoredInv, Answer
<1>3. e \in Entries /\ e.token = writes + 1 /\ e.expires = Expiry(c)
  BY <1>2, ExpiryIs DEF Entries
<1>4. StoredInv'
  <2>1. used' \subseteq 0..writes'
    BY <1>1, <1>2
  <2>2. items' \in Entries /\ items'.token <= writes'
    BY <1>1, <1>2, <1>3
  <2> QED
    BY <1>1, <1>2, <2>1, <2>2 DEF StoredInv
<1>5. CallsInv'
  BY <1>1, <1>3, AnswerInv DEF Outcomes, Inv, CallsInv
<1>6. items' \in [token : Nat \ (used \cup {0}), expires : Store!Expiries(c)]
  BY <1>1, <1>2, ExpiryIs
<1>7. used' = used \cup {items'.token}
  BY <1>1, <1>3
<1>8. Store!Put(c)
  BY <1>1, <1>6, <1>7, NotStale, AnswerDecides DEF Outcomes, Store!Put
<1> QED
  BY <1>4, <1>5, <1>8 DEF Inv

LEMMA TouchStep ==
    ASSUME Inv, NEW c \in Calls, Touch(c)
    PROVE  Inv' /\ Store!Touch(c)
<1>1. /\ items' = [items EXCEPT !.expires = Expiry(c)]
      /\ writes' = writes /\ used' = used
      /\ seen' = [seen EXCEPT ![c] = items'] /\ Answer(c, "ok")
      /\ call[c].kind = "touch" /\ ~Stale(c) /\ Entry.token # 0
  BY DEF Touch, Found
<1>2. items \in Entries /\ now \in Nat /\ now' = now
  BY <1>1 DEF Inv, StoredInv, Answer
<1>3. items' \in Entries /\ items'.token = items.token
  BY <1>1, <1>2, ExpiryIs DEF Entries
<1>4. StoredInv'
  BY <1>1, <1>2, <1>3, EntryIs DEF Inv, StoredInv, Store!NoDoc
<1>5. CallsInv'
  BY <1>1, <1>3, AnswerInv DEF Outcomes, Inv, CallsInv
<1>6. Store!WasLive(c) /\ Entry = items
  BY <1>1, <1>2, EntryIs, LiveWasLive
<1>7. call[c].match \in {Anything, items.token}
  BY <1>1, <1>6 DEF Stale
<1>8. \E x \in Store!Expiries(c) : items' = [items EXCEPT !.expires = x]
  BY <1>1, ExpiryIs
<1>9. Store!Touch(c)
  BY <1>1, <1>6, <1>7, <1>8, AnswerDecides DEF Outcomes, Store!Touch
<1> QED
  BY <1>4, <1>5, <1>9 DEF Inv

LEMMA DeleteStep ==
    ASSUME Inv, NEW c \in Calls, Delete(c)
    PROVE  Inv' /\ Store!Delete(c)
<1> DEFINE o == IF Entry.token # 0 THEN "ok" ELSE "missing"
<1>1. /\ items' = Store!NoDoc /\ writes' = writes /\ used' = used /\ seen' = seen
      /\ Answer(c, o) /\ call[c].kind = "delete" /\ ~Stale(c)
  BY DEF Delete
<1>2. items \in Entries /\ now \in Nat /\ now' = now
  BY <1>1 DEF Inv, StoredInv, Answer
<1>3. StoredInv'
  BY <1>1, <1>2 DEF Inv, StoredInv, Store!NoDoc, Entries
<1>4. CallsInv'
  BY <1>1, AnswerInv DEF Outcomes, Inv, CallsInv
<1>5. Store!Undecided(c) /\ Store!Decide(c, o)
  BY <1>1, AnswerDecides DEF Outcomes
<1>6. \/ Store!WasLive(c) /\ Store!Decide(c, "ok")
      \/ ~Store!Live(items, now) /\ Store!Decide(c, "missing")
  <2>1. CASE Entry.token # 0
    BY <1>2, <1>5, <2>1, EntryIs, LiveWasLive
  <2>2. CASE Entry.token = 0
    BY <1>2, <1>5, <2>2, EntryIs
  <2> QED
    BY <2>1, <2>2
<1>7. Store!Delete(c)
  BY <1>1, <1>5, <1>6, NotStale DEF Store!Delete
<1> QED
  BY <1>3, <1>4, <1>7 DEF Inv

LEMMA ReadStep ==
    ASSUME Inv, NEW c \in Calls, Read(c)
    PROVE  Inv' /\ Store!Read(c)
<1>1. /\ items' = Entry /\ writes' = writes /\ used' = used
      /\ seen' = [seen EXCEPT ![c] = items'] /\ Answer(c, "ok")
      /\ call[c].kind = "read" /\ Entry.token # 0
  BY DEF Read, Look, Found
<1>2. items \in Entries /\ now \in Nat /\ now' = now
  BY <1>1 DEF Inv, StoredInv, Answer
<1>3. items' = items /\ Store!Live(items, now)
  BY <1>1, <1>2, EntryIs
<1>4. StoredInv'
  BY <1>1, <1>2, <1>3 DEF Inv, StoredInv
<1>5. CallsInv'
  BY <1>1, <1>2, <1>3, AnswerInv DEF Outcomes, Inv, CallsInv
<1>6. Store!Read(c)
  BY <1>1, <1>3, AnswerDecides DEF Outcomes, Store!Read
<1> QED
  BY <1>4, <1>5, <1>6 DEF Inv

LEMMA NotFoundStep ==
    ASSUME Inv, NEW c \in Calls, NotFound(c)
    PROVE  Inv' /\ Store!Missing(c)
<1>1. /\ items' = Entry /\ writes' = writes /\ used' = used /\ seen' = seen
      /\ Answer(c, "missing") /\ call[c].kind \in {"read", "touch"}
      /\ Entry.token = 0
  BY DEF NotFound, Look
<1>2. items \in Entries /\ now \in Nat /\ now' = now
  BY <1>1 DEF Inv, StoredInv, Answer
<1>3. ~Store!Live(items, now) /\ items' = Store!NoDoc
  BY <1>1, <1>2, EntryIs
<1>4. StoredInv'
  BY <1>1, <1>2, <1>3 DEF Inv, StoredInv, Store!NoDoc, Entries
<1>5. CallsInv'
  BY <1>1, AnswerInv DEF Outcomes, Inv, CallsInv
<1>6. Store!Missing(c)
  BY <1>1, <1>3, AnswerDecides DEF Outcomes, Store!Missing, Store!Kept
<1> QED
  BY <1>4, <1>5, <1>6 DEF Inv

LEMMA ListStep ==
    ASSUME Inv, List
    PROVE  Inv' /\ (Store!Expire \/ UNCHANGED Store!vars)
<1>1. /\ items' = Entry /\ items \in Entries /\ now \in Nat
      /\ UNCHANGED <<now, used, call, since, seen, outcome, state, writes>>
  BY DEF List, Inv, StoredInv
<1>2. StoredInv'
  BY <1>1, EntryIs DEF Inv, StoredInv, Store!NoDoc
<1>3. CallsInv'
  BY <1>1 DEF Inv, CallsInv
<1>4. CASE Store!Live(items, now)
  BY <1>1, <1>2, <1>3, <1>4, EntryIs DEF Inv, Store!vars, Store!callvars
<1>5. CASE ~Store!Live(items, now)
  <2>1. items' = Store!NoDoc
    BY <1>1, <1>5, EntryIs
  <2>2. CASE items.token # 0
    BY <1>1, <1>2, <1>3, <1>5, <2>1, <2>2 DEF Inv, Store!Expire, Store!callvars
  <2>3. CASE items.token = 0
    BY <1>1, <1>2, <1>3, <2>1, <2>3 DEF Inv, StoredInv, Store!vars, Store!callvars
  <2> QED
    BY <2>2, <2>3
<1> QED
  BY <1>4, <1>5

(* Every step of MemoryStore is a step of DocumentStore or a stutter. *)
LEMMA NextStep ==
    ASSUME Inv, [Next]_vars
    PROVE  Inv' /\ [Store!Next]_(Store!vars)
<1>1. CASE Tick
  <2>1. StoredInv'
    BY <1>1 DEF Tick, Store!Tick, Store!callvars, Inv, StoredInv
  <2>2. CallsInv'
    <3>1. now \in Nat /\ now' = now + 1 /\ since' = since /\ call' = call
          /\ seen' = seen /\ outcome' = outcome /\ state' = state
      BY <1>1 DEF Tick, Store!Tick, Store!callvars, Inv, StoredInv
    <3> QED
      BY <3>1 DEF Inv, CallsInv
  <2> QED
    BY <1>1, <2>1, <2>2 DEF Inv, Tick, Store!Next
<1>2. CASE List
  BY <1>2, ListStep DEF Store!Next
<1>3. CASE \E c \in Calls : \E r \in Store!Requests : Begin(c, r)
  BY <1>3, BeginStep
<1>4. CASE \E c \in Calls : Refuse(c)
  BY <1>4, RefuseStep DEF Store!Next
<1>5. CASE \E c \in Calls : Put(c)
  BY <1>5, PutStep DEF Store!Next
<1>6. CASE \E c \in Calls : Touch(c)
  BY <1>6, TouchStep DEF Store!Next
<1>7. CASE \E c \in Calls : Delete(c)
  BY <1>7, DeleteStep DEF Store!Next
<1>8. CASE \E c \in Calls : Read(c)
  BY <1>8, ReadStep DEF Store!Next
<1>9. CASE \E c \in Calls : NotFound(c)
  BY <1>9, NotFoundStep DEF Store!Next
<1>10. CASE \E c \in Calls : Cancel(c)
  <2>1. PICK c \in Calls : Cancel(c)
    BY <1>10
  <2>2. StoredInv' /\ CallsInv'
    BY <2>1 DEF Inv, StoredInv, CallsInv, Cancel, States
  <2>3. Store!Fail({c})
    BY <2>1 DEF Cancel, Store!Fail, Inv, CallsInv
  <2> QED
    BY <2>2, <2>3 DEF Inv, Store!Next
<1>11. CASE UNCHANGED vars
  <2>1. Inv'
    BY <1>11 DEF vars, Inv, StoredInv, CallsInv
  <2>2. UNCHANGED Store!vars
    BY <1>11 DEF vars, Store!vars, Store!callvars
  <2> QED
    BY <2>1, <2>2
<1> QED
  BY <1>1, <1>2, <1>3, <1>4, <1>5, <1>6, <1>7, <1>8, <1>9, <1>10, <1>11 DEF Next

(* MemoryStore keeps the promises of DocumentStore: calls take effect at   *)
(* once and whole, a token matches only an entry that has not expired, and *)
(* nothing disappears that was not deleted or had not expired.             *)
THEOREM Refinement == Spec => Implements
<1>1. Init => Store!Init
  BY DEF Init
<1> QED
  BY <1>1, InitInv, NextStep, PTL DEF Spec, Implements, Store!Spec
=============================================================================
