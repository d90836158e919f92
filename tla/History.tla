------------------------------- MODULE History -------------------------------
(***************************************************************************)
(* What m_whowas.c promises the rest of the server: the last Length nicks  *)
(* that were given up, newest first, each with the client that gave it up  *)
(* as long as that client exists, and a lookup that finds the client that  *)
(* was the last to give up a nick.  WHOWAS answers from it, and KILL       *)
(* follows a client through it when its nick has changed meanwhile.        *)
(***************************************************************************)
EXTENDS Integers, Sequences

CONSTANTS Nick, Client,
          None,      \* no nick, no client
          Length,    \* NICKNAMEHISTORYLENGTH
          MaxTime    \* bound on the clock

VARIABLES hist,      \* entries [nick, time, online], newest first
          nickOf,    \* the nick of each client block, None for a free block
          now        \* CurrentTime

vars == <<hist, nickOf, now>>

\* one more entry, and none beyond the Length newest
Push(h, e) ==
    [k \in 1 .. (IF Len(h) < Length THEN Len(h) + 1 ELSE Length) |->
        IF k = 1 THEN e ELSE h[k - 1]]

\* the client is gone: its entries stay without it
Forget(h, c) ==
    [i \in DOMAIN h |-> IF h[i].online = c THEN [h[i] EXCEPT !.online = None] ELSE h[i]]

\* the client that gave up a nick last, no longer than limit ago
Lookup(h, nick, limit) ==
    LET fresh == {i \in DOMAIN h : h[i].nick = nick /\ h[i].time >= now - limit}
    IN IF fresh = {} THEN None
       ELSE h[CHOOSE i \in fresh : \A j \in fresh : i <= j].online

Init ==
    /\ hist = <<>>
    /\ nickOf = [c \in Client |-> None]
    /\ now = 0

Free(n) == \A c \in Client : nickOf[c] # n

\* a client registers with its first nick
Register(c, n) ==
    /\ nickOf[c] = None /\ Free(n)
    /\ nickOf' = [nickOf EXCEPT ![c] = n]
    /\ UNCHANGED <<hist, now>>

\* a registered client changes its nick
ChangeNick(c, n) ==
    /\ nickOf[c] # None /\ Free(n)
    /\ hist' = Push(hist, [nick |-> nickOf[c], time |-> now, online |-> c])
    /\ nickOf' = [nickOf EXCEPT ![c] = n]
    /\ UNCHANGED now

\* a client exits
Exit(c) ==
    /\ nickOf[c] # None
    /\ hist' = Forget(Push(hist, [nick |-> nickOf[c], time |-> now, online |-> None]), c)
    /\ nickOf' = [nickOf EXCEPT ![c] = None]
    /\ UNCHANGED now

Tick == now < MaxTime /\ now' = now + 1 /\ UNCHANGED <<hist, nickOf>>

Next ==
    \/ \E c \in Client, n \in Nick : Register(c, n)
    \/ \E c \in Client, n \in Nick : ChangeNick(c, n)
    \/ \E c \in Client : Exit(c)
    \/ Tick

Spec == Init /\ [][Next]_vars
=============================================================================
