------------------------------- MODULE Whowas -------------------------------
(***************************************************************************)
(* The nick history as m_whowas.c keeps it: a ring of entries that are     *)
(* reused in turn, each entry on the chain of its nick's hash value, and   *)
(* on the chain of the client that gave the nick up while that client      *)
(* exists.  Both chains are doubly linked, and entries leave them from any *)
(* place.                                                                  *)
(*                                                                         *)
(* An entry (WHOWAS) is split by what its fields are for: who holds what   *)
(* it says, list its pointers next and prev and the heads in WHOWASHASH,   *)
(* clist its pointers cnext and cprev and the heads in the clients         *)
(* (cptr->whowas).  A slot is a number, Nil is the null pointer.           *)
(***************************************************************************)
EXTENDS Integers, Sequences, FiniteSets

CONSTANTS Nick, Client, None, Length, MaxTime,
          Hash,      \* hash_whowas_name: [Nick -> Nat]
          Limits     \* the time limits of the lookups checked

ASSUME LengthAssumption == Length \in Nat \ {0} /\ Hash \in [Nick -> Nat]

ASSUME NoneAssumption == None \notin Nick /\ None \notin Client

ASSUME TimeAssumption == MaxTime \in Nat /\ Limits \subseteq Int

Slot == 0 .. Length - 1
Nil == -1
Pointer == Slot \cup {Nil}

Bucket == {Hash[n] : n \in Nick}

VARIABLES who, list, clist, whowas_next, nickOf, now

vars == <<who, list, clist, whowas_next, nickOf, now>>

Entry == [hashv : {-1} \cup Bucket, name : Nick \cup {None},
          logoff : 0 .. MaxTime, online : Client \cup {None}]

\* Chains with their heads in B.
Chains(B) == [first : [B -> Pointer], next : [Slot -> Pointer],
              prev : [Slot -> Pointer]]

-----------------------------------------------------------------------------
(***************************************************************************)
(* The chains.                                                             *)
(***************************************************************************)

\* del_whowas_from_list and del_whowas_from_clist
Unlink(l, b, i) ==
    LET n == l.next[i]
        p == l.prev[i]
    IN [first |-> IF p = Nil THEN [l.first EXCEPT ![b] = n] ELSE l.first,
        next  |-> IF p = Nil THEN l.next ELSE [l.next EXCEPT ![p] = n],
        prev  |-> IF n = Nil THEN l.prev ELSE [l.prev EXCEPT ![n] = p]]

\* add_whowas_to_list and add_whowas_to_clist
LinkFirst(l, b, i) ==
    LET n == l.first[b]
        prev == [l.prev EXCEPT ![i] = Nil]
    IN [first |-> [l.first EXCEPT ![b] = i],
        next  |-> [l.next EXCEPT ![i] = n],
        prev  |-> IF n = Nil THEN prev ELSE [prev EXCEPT ![n] = i]]

-----------------------------------------------------------------------------
(* add_history                                                             *)

\* Slip: an entry that is reused stays on the chain of its old nick.
UnhookedListKept == list

\* The entry to be reused leaves its chains.
UnhookedList ==
    LET e == who[whowas_next] IN
    IF e.hashv = -1 THEN list ELSE Unlink(list, e.hashv, whowas_next)

UnhookedClist ==
    LET e == who[whowas_next] IN
    IF e.hashv = -1 \/ e.online = None THEN clist
    ELSE Unlink(clist, e.online, whowas_next)

\* What the entry then says, and the chains that it enters.  Its pointer
\* online is c if the client stays, None if it exits.
AddedWho(c, online) ==
    [who EXCEPT ![whowas_next] =
        [hashv |-> Hash[nickOf[c]], name |-> nickOf[c], logoff |-> now,
         online |-> online]]

AddedList(c) == LinkFirst(UnhookedList, Hash[nickOf[c]], whowas_next)

AddedClist(online) ==
    IF online = None THEN UnhookedClist
    ELSE LinkFirst(UnhookedClist, online, whowas_next)

\* Slip: the ring has no end.
NextSlotBeyond == whowas_next + 1

\* Slip: the last entry of the ring is never used.
NextSlotShort == IF whowas_next + 2 >= Length THEN 0 ELSE whowas_next + 1

\* whowas_next, one further around the ring
NextSlot == IF whowas_next + 1 = Length THEN 0 ELSE whowas_next + 1

-----------------------------------------------------------------------------
(* off_history                                                             *)

\* Slip: the entries leave the client's chain and still name the client.
OffStepOnline(s, c) ==
    [who   |-> s.who,
     clist |-> Unlink(s.clist, c, s.temp),
     temp  |-> s.clist.next[s.temp]]

\* One entry of the client's chain loses its client; s.temp is the entry and
\* then the one after it.
OffStep(s, c) ==
    [who   |-> [s.who EXCEPT ![s.temp].online = None],
     clist |-> Unlink(s.clist, c, s.temp),
     temp  |-> s.clist.next[s.temp]]

\* The state of the loop after n rounds, from the entries w and the chains l
\* on.  A chain has no more than Length entries.
OffHistoryLoop(w, l, c) ==
    LET loop[n \in 0 .. Length] ==
          IF n = 0 THEN [who |-> w, clist |-> l, temp |-> l.first[c]]
          ELSE IF loop[n - 1].temp = Nil THEN loop[n - 1]
          ELSE OffStep(loop[n - 1], c)
    IN loop

OffHistory(w, l, c) == OffHistoryLoop(w, l, c)[Length]

-----------------------------------------------------------------------------
(* get_history                                                             *)

\* Slip: an entry of exactly the limit counts as too old.
ExpiredAtLimit(e, limit) == e.logoff <= now - limit

\* temp->logoff < CurrentTime - timelimit
Expired(e, limit) == e.logoff < now - limit

Fits(i, nick, limit) == who[i].name = nick /\ ~Expired(who[i], limit)

\* The entry looked at after n rounds of the loop, which stops at one that
\* fits.
GetHistoryLoop(nick, limit) ==
    LET loop[n \in 0 .. Length] ==
          IF n = 0 THEN list.first[Hash[nick]]
          ELSE IF loop[n - 1] = Nil \/ Fits(loop[n - 1], nick, limit)
            THEN loop[n - 1]
          ELSE list.next[loop[n - 1]]
    IN loop

GetHistory(nick, limit) ==
    LET temp == GetHistoryLoop(nick, limit)[Length]
    IN IF temp = Nil THEN None ELSE who[temp].online

-----------------------------------------------------------------------------
\* initwhowas; memset of the client blocks
Init ==
    /\ who = [i \in Slot |-> [hashv |-> -1, name |-> None, logoff |-> 0,
                              online |-> None]]
    /\ list = [first |-> [h \in Bucket |-> Nil], next |-> [i \in Slot |-> Nil],
               prev |-> [i \in Slot |-> Nil]]
    /\ clist = [first |-> [c \in Client |-> Nil], next |-> [i \in Slot |-> Nil],
                prev |-> [i \in Slot |-> Nil]]
    /\ whowas_next = 0
    /\ nickOf = [c \in Client |-> None]
    /\ now = 0

Free(n) == \A c \in Client : nickOf[c] # n

\* register_user: the block was cleared by make_client
Register(c, n) ==
    /\ nickOf[c] = None /\ Free(n)
    /\ nickOf' = [nickOf EXCEPT ![c] = n]
    /\ clist' = [clist EXCEPT !.first[c] = Nil]
    /\ UNCHANGED <<who, list, whowas_next, now>>

\* nickkilldone for a registered client
ChangeNick(c, n) ==
    /\ nickOf[c] # None /\ Free(n)
    /\ who' = AddedWho(c, c)
    /\ list' = AddedList(c)
    /\ clist' = AddedClist(c)
    /\ whowas_next' = NextSlot
    /\ nickOf' = [nickOf EXCEPT ![c] = n]
    /\ UNCHANGED now

\* release_client_state: add_history and off_history, then the block is freed
Exit(c) ==
    LET off == OffHistory(AddedWho(c, None), AddedClist(None), c)
    IN /\ nickOf[c] # None
       /\ who' = off.who
       /\ list' = AddedList(c)
       /\ clist' = off.clist
       /\ whowas_next' = NextSlot
       /\ nickOf' = [nickOf EXCEPT ![c] = None]
       /\ UNCHANGED now

Tick ==
    /\ now < MaxTime
    /\ now' = now + 1
    /\ UNCHANGED <<who, list, clist, whowas_next, nickOf>>

Next ==
    \/ \E c \in Client, n \in Nick : Register(c, n)
    \/ \E c \in Client, n \in Nick : ChangeNick(c, n)
    \/ \E c \in Client : Exit(c)
    \/ Tick

Spec == Init /\ [][Next]_vars

-----------------------------------------------------------------------------
(***************************************************************************)
(* Properties.                                                             *)
(***************************************************************************)

\* How many slots were filled before slot i, if w is the one to be reused.
Pos(w, i) == IF i < w THEN i - w + Length ELSE i - w

IsNewest(w, j, S) ==
    IF S = {} THEN j = Nil ELSE j \in S /\ \A k \in S : Pos(w, k) <= Pos(w, j)

IsOldest(w, j, S) ==
    IF S = {} THEN j = Nil ELSE j \in S /\ \A k \in S : Pos(w, j) <= Pos(w, k)

\* The chain b of l is a list of the slots of own, newest first: the head is
\* the newest, and each slot points to the next older and the next newer one.
Linked(w, l, b, own) ==
    /\ IsNewest(w, l.first[b], own)
    /\ \A i \in own :
          /\ IsNewest(w, l.next[i], {j \in own : Pos(w, j) < Pos(w, i)})
          /\ IsOldest(w, l.prev[i], {j \in own : Pos(w, i) < Pos(w, j)})

TypeOK ==
    /\ who \in [Slot -> Entry]
    /\ list \in Chains(Bucket)
    /\ clist \in Chains(Client)
    /\ whowas_next \in Slot
    /\ nickOf \in [Client -> Nick \cup {None}]
    /\ now \in 0 .. MaxTime

\* A hash chain holds the entries of its hash value, each once, newest first,
\* after any reuse of entries in the middle of it: WHOWAS and get_history stop
\* at the first that fits.
HashChains ==
    \A h \in Bucket :
        Linked(whowas_next, list, h, {i \in Slot : who[i].hashv = h})

\* A client's chain holds exactly the entries that point to it, and no entry
\* points to a block that is free or was given to another client since.
ClientChains ==
    \A c \in Client :
        LET own == {i \in Slot : who[i].online = c} IN
        /\ Linked(whowas_next, clist, c, own)
        /\ nickOf[c] = None => own = {}

\* The slot filled k-th last.
SlotAt(w, k) == IF k <= w THEN w - k ELSE w - k + Length

\* The ring, read backwards from the entry filled last.
Ring ==
    LET used == IF who[whowas_next].hashv = -1 THEN whowas_next ELSE Length IN
    [k \in 1 .. used |->
        LET e == who[SlotAt(whowas_next, k)]
        IN [nick |-> e.name, time |-> e.logoff, online |-> e.online]]

H == INSTANCE History WITH hist <- Ring

\* get_history, which walks one chain of the hash table, finds the client that
\* the history as a whole names.
LookupRight ==
    \A n \in Nick, limit \in Limits : GetHistory(n, limit) = H!Lookup(Ring, n, limit)

\* The ring with its chains is a history of the last Length nicks given up.
Implements == H!Spec

\* The chains that add_history, off_history and their helpers unhook and
\* rehook are what they are meant to be.
ChainsSound == TypeOK /\ HashChains /\ ClientChains
=============================================================================
