---------------------------- MODULE NickTSProofs ----------------------------
(***************************************************************************)
(* Proofs about NickTS, for any tree of servers, any clients and any       *)
(* number of commands: no server has two clients of one nick or two        *)
(* structures for one of its own connections, the history points to        *)
(* clients that are there, and nobody is kept from behind a lost link.     *)
(*                                                                         *)
(* TableOK says this of the client table of one server.  It is inductive   *)
(* with one addition about the streams (WireOK): a NICK line introduces    *)
(* only clients that lie behind its sender, so that a server is never told *)
(* of one of its own.  Every handler exits some clients and then lets at   *)
(* most one take a nick (TableExit, TableAdd, TableReplace, TableNote).    *)
(***************************************************************************)
EXTENDS NickTS, FiniteSetTheorems, SequenceTheorems, TLAPS

-----------------------------------------------------------------------------
(* The inductive invariant, in parts.                                      *)

\* The structures of one server: no nick twice, no client of its own twice.
Unique(s, C) ==
    \A c, d \in C : c.nick = d.nick \/ (c.user = d.user /\ Home[c.user] = s) => c = d

\* The history h points to structures of C.
HistoryIn(C, h) ==
    \A n \in Nick : h[n] # NoUser => \E c \in C : c.user = h[n]

\* Where the client of c is, L being the links of s: here and connected, or
\* behind one of them.
Placed(s, c, g, L) ==
    \/ Home[c.user] = s /\ c.user \notin g
    \/ \E t \in L : c.user \in Via(s, t)

TableOK(s, C, h, g, L) ==
    /\ C \subseteq Client /\ IsFiniteSet(C)
    /\ h \in [Nick -> User \cup {NoUser}]
    /\ Unique(s, C)
    /\ HistoryIn(C, h)
    /\ \A c \in C : Placed(s, c, g, L)

TablesOK ==
    /\ clients \in [Server -> SUBSET Client]
    /\ online \in [Server -> [Nick -> User \cup {NoUser}]]
    /\ gone \subseteq User
    /\ \A s \in Server : TableOK(s, clients[s], online[s], gone, linked[s])

\* The client a message brings.
Carried(m) == IF m.type = "NICK" THEN {m.user} ELSE {}

SourcesIn(q, V) == \A i \in 1..Len(q) : Carried(q[i]) \subseteq V

\* The streams are between neighbours, and introduce who lies behind the
\* sender.
WireOK(w) ==
    /\ w \in [Server -> [Server -> Seq(Message)]]
    /\ \A s, t \in Server : w[s][t] # <<>> => t \in Neighbours(s)
    /\ \A s, t \in Server : SourcesIn(w[s][t], Via(t, s))

LinkOK ==
    /\ linked \in [Server -> SUBSET Server]
    /\ \A s \in Server : linked[s] \subseteq Neighbours(s)

RestOK ==
    /\ time \in [Server -> Nat]
    /\ changes \in [User -> Nat]
    /\ script \in Scripts
    /\ budget \in Nat

IndInv == TablesOK /\ LinkOK /\ WireOK(wire) /\ RestOK

-----------------------------------------------------------------------------
(* Topology                                                                *)

Own(s) == {u \in User : Home[u] = s}

\* A server's own clients are behind none of its links, and those behind one
\* link are on the near side of every other.
LEMMA ViaFacts ==
    ASSUME NEW s \in Server, NEW t \in Neighbours(s)
    PROVE  /\ t \in Server /\ s \in Neighbours(t) /\ s # t
           /\ Via(s, t) \subseteq User
           /\ Own(s) \subseteq Via(t, s)
           /\ Own(s) \cap Via(s, t) = {}
           /\ Via(t, s) = User \ Via(s, t)
           /\ \A x \in Neighbours(s) \ {t} : Via(s, t) \subseteq Via(x, s)
<1>1. t \in Server /\ s # t
  BY DEF Neighbours
<1>2. s \in Neighbours(t) /\ Via(t, s) = User \ Via(s, t)
  BY TreeAssumption
<1>3. Via(s, t) \subseteq User /\ Own(s) \cap Via(s, t) = {} /\ Own(s) \subseteq User
  BY DEF Via, Own
<1>4. ASSUME NEW x \in Neighbours(s) \ {t}
      PROVE  Via(s, t) \subseteq Via(x, s)
  <2>1. Via(x, s) = User \ Via(s, x)
    BY TreeAssumption
  <2>2. Via(s, t) \cap Via(s, x) = {}
    BY <1>4 DEF Via
  <2> QED BY <2>1, <2>2, <1>3
<1> QED BY <1>1, <1>2, <1>3, <1>4

-----------------------------------------------------------------------------
(* Messages and streams                                                    *)

LEMMA MessageFields ==
    ASSUME NEW m \in Message
    PROVE  /\ m.type = "NICK" => m.user \in User /\ m.nick \in Nick /\ m.ts \in Nat \ {0}
           /\ m.type = "CHANGE" => m.old \in Nick /\ m.nick \in Nick /\ m.ts \in Nat \ {0}
           /\ m.type \in {"KILL", "QUIT"} => m.nick \in Nick
BY DEF Message

LEMMA TailSources ==
    ASSUME NEW q \in Seq(Message), q # <<>>, NEW V, SourcesIn(q, V)
    PROVE  /\ Tail(q) \in Seq(Message)
           /\ SourcesIn(Tail(q), V)
           /\ Head(q) \in Message
           /\ Carried(Head(q)) \subseteq V
<1>1. Len(q) \in Nat /\ Len(q) > 0 /\ Len(Tail(q)) = Len(q) - 1
  OBVIOUS
<1>2. \A i \in 1..Len(Tail(q)) : Tail(q)[i] = q[i + 1]
  OBVIOUS
<1>3. Head(q) = q[1] /\ Head(q) \in Message /\ Tail(q) \in Seq(Message)
  OBVIOUS
<1> QED BY <1>1, <1>2, <1>3 DEF SourcesIn

LEMMA ConcatSources ==
    ASSUME NEW q \in Seq(Message), NEW r \in Seq(Message), NEW V,
           SourcesIn(q, V), SourcesIn(r, V)
    PROVE  q \o r \in Seq(Message) /\ SourcesIn(q \o r, V)
<1>1. Len(q) \in Nat /\ Len(r) \in Nat /\ Len(q \o r) = Len(q) + Len(r)
      /\ q \o r \in Seq(Message)
  OBVIOUS
<1>2. \A i \in 1..Len(q \o r) :
          (q \o r)[i] = IF i <= Len(q) THEN q[i] ELSE r[i - Len(q)]
  OBVIOUS
<1>3. ASSUME NEW i \in 1..Len(q \o r)
      PROVE  Carried((q \o r)[i]) \subseteq V
  <2>1. CASE i <= Len(q)
    BY <1>1, <1>2, <2>1 DEF SourcesIn
  <2>2. CASE ~(i <= Len(q))
    <3>1. i - Len(q) \in 1..Len(r) /\ (q \o r)[i] = r[i - Len(q)]
      BY <1>1, <1>2, <2>2
    <3> QED BY <3>1 DEF SourcesIn
  <2> QED BY <2>1, <2>2
<1> QED BY <1>1, <1>3 DEF SourcesIn

\* Reading the next message of a stream.
LEMMA WireTail ==
    ASSUME NEW w, WireOK(w), NEW s \in Server, NEW t \in Server,
           w[t][s] # <<>>
    PROVE  /\ WireOK([w EXCEPT ![t][s] = Tail(@)])
           /\ t \in Neighbours(s)
           /\ Head(w[t][s]) \in Message
           /\ Carried(Head(w[t][s])) \subseteq Via(s, t)
<1>1. /\ w[t][s] \in Seq(Message)
      /\ SourcesIn(w[t][s], Via(s, t))
      /\ s \in Neighbours(t)
  BY DEF WireOK
<1>2. t \in Neighbours(s)
  BY <1>1, ViaFacts
<1>3. /\ Tail(w[t][s]) \in Seq(Message)
      /\ SourcesIn(Tail(w[t][s]), Via(s, t))
      /\ Head(w[t][s]) \in Message
      /\ Carried(Head(w[t][s])) \subseteq Via(s, t)
  BY <1>1, TailSources
<1>4. WireOK([w EXCEPT ![t][s] = Tail(@)])
  BY <1>1, <1>3 DEF WireOK
<1> QED BY <1>2, <1>3, <1>4

LEMMA Empty ==
    /\ <<>> \in Seq(Message)
    /\ \A V : SourcesIn(<<>>, V)
BY DEF SourcesIn

\* Replacing the contents of one stream.
LEMMA WireSet ==
    ASSUME NEW w, WireOK(w), NEW s \in Server, NEW t \in Server,
           NEW q \in Seq(Message),
           q = <<>> \/ (t \in Neighbours(s) /\ SourcesIn(q, Via(t, s)))
    PROVE  WireOK([w EXCEPT ![s][t] = q])
<1>1. SourcesIn(q, Via(t, s))
  BY Empty
<1> QED BY <1>1 DEF WireOK

\* One stream grows.
LEMMA WireGrow ==
    ASSUME NEW w, WireOK(w), NEW s \in Server, NEW t \in Neighbours(s),
           NEW q \in Seq(Message), SourcesIn(q, Via(t, s))
    PROVE  WireOK([w EXCEPT ![s][t] = @ \o q])
<1>1. t \in Server
  BY DEF Neighbours
<1>2. w[s][t] \in Seq(Message) /\ SourcesIn(w[s][t], Via(t, s))
  BY <1>1 DEF WireOK
<1>3. w[s][t] \o q \in Seq(Message) /\ SourcesIn(w[s][t] \o q, Via(t, s))
  BY <1>2, ConcatSources
<1>4. WireOK([w EXCEPT ![s][t] = w[s][t] \o q])
  BY <1>1, <1>3, WireSet
<1> QED BY <1>4

\* Sending to every linked server but t.
LEMMA WireSend ==
    ASSUME NEW w, WireOK(w), LinkOK, NEW s \in Server, NEW t,
           NEW msgs \in Seq(Message),
           \A x \in linked[s] \ {t} : SourcesIn(msgs, Via(x, s))
    PROVE  WireOK(SendButOne(w, s, t, msgs))
<1> DEFINE W == SendButOne(w, s, t, msgs)
<1>1. \A x, y \in Server :
        W[x][y] = IF x = s /\ y \in linked[s] \ {t}
                  THEN w[x][y] \o msgs ELSE w[x][y]
  BY DEF SendButOne, WireOK
<1>2. ASSUME NEW y \in linked[s] \ {t}
      PROVE  /\ y \in Neighbours(s)
             /\ w[s][y] \o msgs \in Seq(Message)
             /\ SourcesIn(w[s][y] \o msgs, Via(y, s))
  <2>1. y \in Server /\ y \in Neighbours(s)
    BY DEF LinkOK
  <2>2. w[s][y] \in Seq(Message) /\ SourcesIn(w[s][y], Via(y, s))
    BY <2>1 DEF WireOK
  <2> QED BY <2>1, <2>2, ConcatSources
<1>3. W \in [Server -> [Server -> Seq(Message)]]
  BY <1>2 DEF SendButOne, WireOK
<1>4. \A x, y \in Server : W[x][y] # <<>> => y \in Neighbours(x)
  BY <1>1, <1>2 DEF WireOK
<1>5. ASSUME NEW x \in Server, NEW y \in Server
      PROVE  SourcesIn(W[x][y], Via(y, x))
  <2>1. CASE x = s /\ y \in linked[s] \ {t}
    <3>1. W[s][y] = w[s][y] \o msgs
      BY <1>1, <2>1
    <3> QED BY <1>2, <2>1, <3>1
  <2>2. CASE ~(x = s /\ y \in linked[s] \ {t})
    <3>1. W[x][y] = w[x][y]
      BY <1>1, <2>2
    <3> QED BY <3>1 DEF WireOK
  <2> QED BY <2>1, <2>2
<1> HIDE DEF W
<1> QED BY <1>3, <1>4, <1>5 DEF WireOK, W

LEMMA OneMessage ==
    ASSUME NEW m \in Message, NEW V, Carried(m) \subseteq V
    PROVE  /\ <<m>> \in Seq(Message)
           /\ SourcesIn(<<m>>, V)
BY DEF SourcesIn

LEMMA TwoMessages ==
    ASSUME NEW m \in Message, NEW k \in Message, NEW V,
           Carried(m) \subseteq V, Carried(k) \subseteq V
    PROVE  /\ <<m, k>> \in Seq(Message)
           /\ SourcesIn(<<m, k>>, V)
BY DEF SourcesIn

\* Messages that introduce nobody may go anywhere.
LEMMA SendPlain ==
    ASSUME NEW w, WireOK(w), LinkOK, NEW s \in Server, NEW t,
           NEW m \in Message, m.type # "NICK"
    PROVE  WireOK(SendButOne(w, s, t, <<m>>))
<1>1. Carried(m) = {}
  BY DEF Carried
<1>2. <<m>> \in Seq(Message) /\ \A x : SourcesIn(<<m>>, Via(x, s))
  BY <1>1, OneMessage
<1> QED BY <1>2, WireSend

LEMMA SendTwoPlain ==
    ASSUME NEW w, WireOK(w), LinkOK, NEW s \in Server, NEW t,
           NEW m \in Message, m.type # "NICK", NEW k \in Message, k.type # "NICK"
    PROVE  WireOK(SendButOne(w, s, t, <<m, k>>))
<1>1. Carried(m) = {} /\ Carried(k) = {}
  BY DEF Carried
<1>2. <<m, k>> \in Seq(Message) /\ \A x : SourcesIn(<<m, k>>, Via(x, s))
  BY <1>1, TwoMessages
<1> QED BY <1>2, WireSend

\* An introduction from behind t goes on away from t, with or without a KILL
\* before it.
LEMMA SendNick ==
    ASSUME NEW w, WireOK(w), LinkOK, NEW s \in Server, NEW t \in linked[s],
           NEW m \in Message, Carried(m) \subseteq Via(s, t),
           NEW k \in Message, k.type # "NICK"
    PROVE  /\ WireOK(SendButOne(w, s, t, <<m>>))
           /\ WireOK(SendButOne(w, s, t, <<k, m>>))
<1>1. t \in Neighbours(s) /\ linked[s] \subseteq Neighbours(s)
  BY DEF LinkOK
<1>2. \A x \in linked[s] \ {t} : Carried(m) \subseteq Via(x, s)
  BY <1>1, ViaFacts
<1>3. Carried(k) = {}
  BY DEF Carried
<1>4. <<m>> \in Seq(Message)
      /\ \A x \in linked[s] \ {t} : SourcesIn(<<m>>, Via(x, s))
  BY <1>2, OneMessage
<1>5. <<k, m>> \in Seq(Message)
      /\ \A x \in linked[s] \ {t} : SourcesIn(<<k, m>>, Via(x, s))
  BY <1>2, <1>3, TwoMessages
<1>6. WireOK(SendButOne(w, s, t, <<m>>))
  BY <1>4, WireSend
<1>7. WireOK(SendButOne(w, s, t, <<k, m>>))
  BY <1>5, WireSend
<1> QED BY <1>6, <1>7

LEMMA KillMessage ==
    ASSUME NEW n \in Nick
    PROVE  KillOf(n) \in Message /\ KillOf(n).type = "KILL"
BY DEF KillOf, Message

-----------------------------------------------------------------------------
(* The table of one server.                                                *)

\* The users among the structures of left that are connected to s.
Leavers(s, left) == {c.user : c \in {x \in left : Local(s, x)}}

LEMMA ClientFields ==
    ASSUME NEW c \in Client
    PROVE  c.user \in User /\ c.nick \in Nick /\ c.ts \in Nat \ {0}
           /\ c.registered \in BOOLEAN
BY DEF Client

\* off_history: what the history still points to has not left.
LEMMA HistoryOff ==
    ASSUME NEW h \in [Nick -> User \cup {NoUser}], NEW C, NEW left, HistoryIn(C, h)
    PROVE  /\ OffHistory(h, left) \in [Nick -> User \cup {NoUser}]
           /\ HistoryIn(C \ left, OffHistory(h, left))
<1>1. OffHistory(h, left) \in [Nick -> User \cup {NoUser}]
  BY DEF OffHistory
<1>2. ASSUME NEW n \in Nick, OffHistory(h, left)[n] # NoUser
      PROVE  \E c \in C \ left : c.user = OffHistory(h, left)[n]
  <2>1. OffHistory(h, left)[n] = h[n] /\ h[n] # NoUser
        /\ h[n] \notin {c.user : c \in left}
    BY <1>2 DEF OffHistory
  <2>2. PICK c \in C : c.user = h[n]
    BY <2>1 DEF HistoryIn
  <2> QED BY <2>1, <2>2
<1> QED BY <1>1, <1>2 DEF HistoryIn

\* exit_one_client of some of a server's clients.
LEMMA TableExit ==
    ASSUME NEW s \in Server, NEW C, NEW h, NEW g, NEW L, TableOK(s, C, h, g, L),
           NEW left \in SUBSET C
    PROVE  TableOK(s, C \ left, OffHistory(h, left), g \cup Leavers(s, left), L)
<1>1. /\ OffHistory(h, left) \in [Nick -> User \cup {NoUser}]
      /\ HistoryIn(C \ left, OffHistory(h, left))
  BY HistoryOff DEF TableOK
<1>2. IsFiniteSet(C \ left)
  BY FS_Difference DEF TableOK
<1>3. Unique(s, C \ left)
  BY DEF TableOK, Unique
<1>4. ASSUME NEW c \in C \ left
      PROVE  Placed(s, c, g \cup Leavers(s, left), L)
  <2>1. Placed(s, c, g, L)
    BY DEF TableOK
  <2>2. Home[c.user] = s => c.user \notin Leavers(s, left)
    BY DEF TableOK, Unique, Leavers, Local
  <2> QED BY <2>1, <2>2 DEF Placed
<1> QED BY <1>1, <1>2, <1>3, <1>4 DEF TableOK

\* A new client with a nick that nobody has.
LEMMA TableAdd ==
    ASSUME NEW s \in Server, NEW C, NEW h, NEW g, NEW L, TableOK(s, C, h, g, L),
           NEW new \in Client, Placed(s, new, g, L),
           \A c \in C : c.nick # new.nick,
           Home[new.user] = s => \A c \in C : c.user # new.user
    PROVE  TableOK(s, C \cup {new}, h, g, L)
<1>1. IsFiniteSet(C \cup {new})
  BY FS_AddElement DEF TableOK
<1>2. Unique(s, C \cup {new})
  BY DEF TableOK, Unique
<1>3. HistoryIn(C \cup {new}, h)
  BY DEF TableOK, HistoryIn
<1> QED BY <1>1, <1>2, <1>3 DEF TableOK

\* The client of a structure gets another nick or timestamp.
LEMMA TableReplace ==
    ASSUME NEW s \in Server, NEW C, NEW h, NEW g, NEW L, TableOK(s, C, h, g, L),
           NEW c \in C, NEW new \in Client, new.user = c.user,
           \A d \in C : d.nick = new.nick => d = c
    PROVE  TableOK(s, (C \ {c}) \cup {new}, h, g, L)
<1>1. IsFiniteSet((C \ {c}) \cup {new})
  BY FS_AddElement, FS_RemoveElement DEF TableOK
<1>2. Unique(s, (C \ {c}) \cup {new})
  BY DEF TableOK, Unique
<1>3. HistoryIn((C \ {c}) \cup {new}, h)
  BY DEF TableOK, HistoryIn
<1>4. \A d \in (C \ {c}) \cup {new} : Placed(s, d, g, L)
  BY DEF TableOK, Placed
<1> QED BY <1>1, <1>2, <1>3, <1>4 DEF TableOK

\* add_history for a client that stays.
LEMMA TableNote ==
    ASSUME NEW s \in Server, NEW C, NEW h, NEW g, NEW L, TableOK(s, C, h, g, L),
           NEW c \in C, NEW n \in Nick
    PROVE  TableOK(s, C, [h EXCEPT ![n] = c.user], g, L)
<1>1. c.user \in User
  BY ClientFields DEF TableOK
<1>2. HistoryIn(C, [h EXCEPT ![n] = c.user])
  BY DEF TableOK, HistoryIn
<1> QED BY <1>1, <1>2 DEF TableOK

\* A step at s leaves the tables of the other servers right.
LEMMA TablesStep ==
    ASSUME TablesOK, NEW s \in Server, NEW C, NEW h, NEW G \in SUBSET Own(s),
           clients' = [clients EXCEPT ![s] = C],
           online' = [online EXCEPT ![s] = h],
           gone' = gone \cup G,
           \A x \in Server \ {s} : linked'[x] = linked[x],
           TableOK(s, C, h, gone \cup G, linked'[s])
    PROVE  TablesOK'
<1>1. C \subseteq Client /\ h \in [Nick -> User \cup {NoUser}]
  BY DEF TableOK
<1>2. /\ clients' \in [Server -> SUBSET Client]
      /\ online' \in [Server -> [Nick -> User \cup {NoUser}]]
      /\ gone' \subseteq User
  BY <1>1 DEF TablesOK, Own
<1>3. \A x \in Server : /\ clients'[x] = IF x = s THEN C ELSE clients[x]
                        /\ online'[x] = IF x = s THEN h ELSE online[x]
  BY DEF TablesOK
<1>4. ASSUME NEW x \in Server
      PROVE  TableOK(x, clients'[x], online'[x], gone', linked'[x])
  <2>1. CASE x = s
    BY <1>3, <2>1
  <2>2. CASE x # s
    <3>1. TableOK(x, clients[x], online[x], gone, linked[x])
      BY DEF TablesOK
    <3>2. \A c : Placed(x, c, gone, linked[x]) => Placed(x, c, gone', linked'[x])
      BY <2>2 DEF Placed, Own
    <3>3. TableOK(x, clients[x], online[x], gone', linked'[x])
      BY <3>1, <3>2 DEF TableOK
    <3> QED BY <1>3, <2>2, <3>3
  <2> QED BY <2>1, <2>2
<1> QED BY <1>2, <1>4 DEF TablesOK

LEMMA LeaversOwn ==
    ASSUME NEW s, NEW left \in SUBSET Client
    PROVE  Leavers(s, left) \in SUBSET Own(s)
BY ClientFields DEF Leavers, Own, Local

LEMMA TableHere ==
    ASSUME TablesOK, NEW s \in Server
    PROVE  /\ TableOK(s, clients[s], online[s], gone, linked[s])
           /\ clients[s] \in SUBSET Client
           /\ online[s] \in [Nick -> User \cup {NoUser}]
BY DEF TablesOK

LEMMA TablesSame ==
    ASSUME TablesOK, UNCHANGED <<clients, online, gone, linked>>
    PROVE  TablesOK'
BY DEF TablesOK, TableOK, Unique, HistoryIn, Placed

\* Clients leave and nobody comes.
LEMMA ExitStep ==
    ASSUME TablesOK, NEW s \in Server, NEW left \in SUBSET clients[s],
           Update(s, left, {}, {}), UNCHANGED linked
    PROVE  TablesOK'
<1> DEFINE C == clients[s] \ left
           h == OffHistory(online[s], left)
           G == Leavers(s, left)
<1>1. TableOK(s, C, h, gone \cup G, linked[s])
  BY TableHere, TableExit
<1>2. G \in SUBSET Own(s)
  BY TableHere, LeaversOwn
<1>3. /\ clients' = [clients EXCEPT ![s] = C]
      /\ online' = [online EXCEPT ![s] = h]
      /\ gone' = gone \cup G
  <2>1. (clients[s] \ (left \cup {})) \cup {} = C
    OBVIOUS
  <2> QED BY <2>1 DEF Update, Leavers
<1> HIDE DEF C, h, G
<1> QED BY <1>1, <1>2, <1>3, TablesStep

\* Clients leave and one comes, with a nick that none of the others has.
LEMMA EnterStep ==
    ASSUME TablesOK, NEW s \in Server, NEW left \in SUBSET clients[s],
           NEW new \in Client, Update(s, left, {}, {new}), UNCHANGED linked,
           Named(s, new.nick) \subseteq left,
           \/ /\ Home[new.user] = s /\ new.user \notin gone
              /\ \A c \in clients[s] : c.user # new.user
           \/ Home[new.user] # s /\ \E t \in linked[s] : new.user \in Via(s, t)
    PROVE  TablesOK'
<1> DEFINE C == clients[s] \ left
           D == C \cup {new}
           h == OffHistory(online[s], left)
           G == Leavers(s, left)
<1>1. TableOK(s, C, h, gone \cup G, linked[s])
  BY TableHere, TableExit
<1>2. G \in SUBSET Own(s)
  BY TableHere, LeaversOwn
<1>3. /\ clients' = [clients EXCEPT ![s] = D]
      /\ online' = [online EXCEPT ![s] = h]
      /\ gone' = gone \cup G
  <2>1. (clients[s] \ (left \cup {})) \cup {new} = D
    OBVIOUS
  <2> QED BY <2>1 DEF Update, Leavers
<1>4. \A c \in C : c.nick # new.nick
  BY DEF Named
<1>5. Home[new.user] = s => \A c \in C : c.user # new.user
  OBVIOUS
<1>6. Placed(s, new, gone \cup G, linked[s])
  BY DEF Placed, Leavers
<1> HIDE DEF C, h, G
<1>7. TableOK(s, D, h, gone \cup G, linked[s])
  BY <1>1, <1>4, <1>5, <1>6, TableAdd
<1> HIDE DEF D
<1> QED BY <1>2, <1>3, <1>7, TablesStep

\* Clients leave and one stays with another timestamp.
LEMMA RetimeStep ==
    ASSUME TablesOK, NEW s \in Server, NEW left \in SUBSET clients[s],
           NEW c \in clients[s] \ left, NEW new \in Client,
           new.user = c.user, new.nick = c.nick,
           Update(s, left, {c}, {new}), UNCHANGED linked
    PROVE  TablesOK'
<1> DEFINE C == clients[s] \ left
           D == (C \ {c}) \cup {new}
           h == OffHistory(online[s], left)
           G == Leavers(s, left)
<1>1. TableOK(s, C, h, gone \cup G, linked[s])
  BY TableHere, TableExit
<1>2. G \in SUBSET Own(s)
  BY TableHere, LeaversOwn
<1>3. /\ clients' = [clients EXCEPT ![s] = D]
      /\ online' = [online EXCEPT ![s] = h]
      /\ gone' = gone \cup G
  <2>1. (clients[s] \ (left \cup {c})) \cup {new} = D
    OBVIOUS
  <2> QED BY <2>1 DEF Update, Leavers
<1>4. \A d \in C : d.nick = new.nick => d = c
  BY <1>1 DEF TableOK, Unique
<1> HIDE DEF h, G
<1>5. c \in C
  OBVIOUS
<1> HIDE DEF C
<1>6. TableOK(s, D, h, gone \cup G, linked[s])
  BY <1>1, <1>4, <1>5, TableReplace
<1> HIDE DEF D
<1> QED BY <1>2, <1>3, <1>6, TablesStep

\* nickkilldone: the holders of the nick leave and a client takes it.
LEMMA RenameStep ==
    ASSUME TablesOK, NEW s \in Server, NEW left \in SUBSET clients[s],
           NEW c \in clients[s], NEW n \in Nick, NEW ts \in Nat \ {0},
           Rename(s, c, n, ts, left), UNCHANGED linked,
           Named(s, n) \subseteq left,
           c \notin left \/ Home[c.user] # s
    PROVE  TablesOK'
<1> DEFINE new == [c EXCEPT !.nick = n, !.ts = ts]
           C == clients[s] \ left
           D == (clients[s] \ ({c} \cup left)) \cup {new}
           h == OffHistory(online[s], left)
           k == IF c.registered THEN [h EXCEPT ![c.nick] = c.user] ELSE h
           G == Leavers(s, left)
<1>1. TableOK(s, C, h, gone \cup G, linked[s])
  BY TableHere, TableExit
<1>2. G \in SUBSET Own(s)
  BY TableHere, LeaversOwn
<1>3. /\ clients' = [clients EXCEPT ![s] = D]
      /\ online' = [online EXCEPT ![s] = k]
      /\ gone' = gone \cup G
  BY DEF Rename, Leavers
<1>4. c \in Client /\ new \in Client /\ new.user = c.user /\ new.nick = n
      /\ c.nick \in Nick
  BY TableHere DEF Client
<1>5. \A d \in C : d.nick # n
  BY DEF Named
<1> HIDE DEF new
<1>6. TableOK(s, D, h, gone \cup G, linked[s])
  <2>1. CASE c \notin left
    <3>1. D = (C \ {c}) \cup {new} /\ c \in C
      BY <2>1
    <3> HIDE DEF C, h, G
    <3>2. TableOK(s, (C \ {c}) \cup {new}, h, gone \cup G, linked[s])
      BY <1>1, <1>4, <1>5, <3>1, TableReplace
    <3> QED BY <3>1, <3>2
  <2>2. CASE c \in left /\ Home[c.user] # s
    <3>1. D = C \cup {new}
      BY <2>2
    <3>2. Placed(s, new, gone \cup G, linked[s])
      BY <1>4, <2>2, TableHere DEF TableOK, Placed
    <3> HIDE DEF C, h, G
    <3>3. TableOK(s, C \cup {new}, h, gone \cup G, linked[s])
      BY <1>1, <1>4, <1>5, <2>2, <3>2, TableAdd
    <3> QED BY <3>1, <3>3
  <2> QED BY <2>1, <2>2
<1>7. new \in D
  OBVIOUS
<1> HIDE DEF D, h, G
<1>8. TableOK(s, D, [h EXCEPT ![c.nick] = c.user], gone \cup G, linked[s])
  BY <1>4, <1>6, <1>7, TableNote
<1>9. TableOK(s, D, k, gone \cup G, linked[s])
  BY <1>6, <1>8
<1> HIDE DEF k
<1> QED BY <1>2, <1>3, <1>9, TablesStep

-----------------------------------------------------------------------------
(* Messages from a neighbour.                                              *)

Good == TablesOK' /\ LinkOK' /\ WireOK(wire')

LEMMA SameLinks ==
    ASSUME LinkOK, UNCHANGED linked
    PROVE  LinkOK'
BY DEF LinkOK

LEMMA NamedFacts ==
    ASSUME TablesOK, NEW s \in Server, NEW n
    PROVE  /\ Named(s, n) \in SUBSET clients[s]
           /\ \A c \in Named(s, n) : Named(s, n) \subseteq {c}
           /\ \A c \in Named(s, n) : c \in clients[s] /\ c.nick = n /\ c \in Client
BY TableHere DEF Named, TableOK, Unique

\* A client behind a link is not one of the server's own.
LEMMA Remote ==
    ASSUME LinkOK, NEW s \in Server, NEW t \in linked[s], NEW u \in Via(s, t)
    PROVE  u \in User /\ Home[u] # s
BY DEF LinkOK, Via

LEMMA AppendIs ==
    ASSUME NEW q \in Seq(Message), NEW m \in Message
    PROVE  Append(q, m) = q \o <<m>>
OBVIOUS

LEMMA RecvNickStep ==
    ASSUME IndInv, NEW s \in Server, NEW t \in linked[s], NEW w, WireOK(w),
           NEW m \in Message, m.type = "NICK", Carried(m) \subseteq Via(s, t),
           RecvNick(s, t, m, w), UNCHANGED linked
    PROVE  Good
<1> DEFINE new == [user |-> m.user, nick |-> m.nick, ts |-> m.ts,
                   registered |-> TRUE]
           k == KillOf(m.nick)
<1>1. m.user \in Via(s, t) /\ m.nick \in Nick /\ m.ts \in Nat \ {0}
  BY MessageFields DEF Carried
<1>2. Home[m.user] # s /\ m.user \in User
  BY <1>1, Remote DEF IndInv
<1>3. new \in Client /\ new.user = m.user /\ new.nick = m.nick
  BY <1>1, <1>2 DEF Client
<1>4. k \in Message /\ k.type = "KILL"
  BY <1>1, KillMessage
<1>5. TablesOK /\ LinkOK /\ LinkOK'
  BY SameLinks DEF IndInv
<1>6. /\ WireOK(SendButOne(w, s, t, <<m>>))
      /\ WireOK(SendButOne(w, s, t, <<k, m>>))
      /\ WireOK(SendAll(w, s, <<k>>))
  BY <1>4, <1>5, SendNick, SendPlain DEF SendAll
<1>7. \/ /\ Update(s, Named(s, m.nick), {}, {new})
         /\ wire' = SendButOne(w, s, t, <<m>>)
      \/ \E c \in Named(s, m.nick) :
           \/ /\ Update(s, {c}, {}, {})
              /\ wire' = SendAll(w, s, <<k>>)
           \/ wire' = w /\ UNCHANGED <<clients, online, gone>>
           \/ /\ Update(s, {c}, {}, {new})
              /\ wire' = SendButOne(w, s, t, <<k, m>>)
  BY DEF RecvNick
<1> HIDE DEF new, k
<1>8. CASE Update(s, Named(s, m.nick), {}, {new})
           /\ wire' = SendButOne(w, s, t, <<m>>)
  <2> DEFINE left == Named(s, m.nick)
  <2>1. left \in SUBSET clients[s] /\ Named(s, new.nick) \subseteq left
    BY <1>3, <1>5, NamedFacts
  <2>2. Update(s, left, {}, {new})
    BY <1>8
  <2> HIDE DEF left
  <2>3. TablesOK'
    BY <1>1, <1>2, <1>3, <1>5, <2>1, <2>2, EnterStep
  <2> QED BY <1>5, <1>6, <1>8, <2>3 DEF Good
<1>9. ASSUME NEW c \in Named(s, m.nick), Update(s, {c}, {}, {}),
             wire' = SendAll(w, s, <<k>>)
      PROVE  Good
  <2> DEFINE left == {c}
  <2>1. left \in SUBSET clients[s] /\ Update(s, left, {}, {})
    BY <1>5, <1>9, NamedFacts
  <2> HIDE DEF left
  <2>2. TablesOK'
    BY <1>5, <2>1, ExitStep
  <2> QED BY <1>5, <1>6, <1>9, <2>2 DEF Good
<1>10. CASE wire' = w /\ UNCHANGED <<clients, online, gone>>
  BY <1>5, <1>10, TablesSame DEF Good
<1>11. ASSUME NEW c \in Named(s, m.nick), Update(s, {c}, {}, {new}),
              wire' = SendButOne(w, s, t, <<k, m>>)
       PROVE  Good
  <2> DEFINE left == {c}
  <2>1. /\ left \in SUBSET clients[s] /\ Update(s, left, {}, {new})
        /\ Named(s, new.nick) \subseteq left
    BY <1>3, <1>5, <1>11, NamedFacts
  <2> HIDE DEF left
  <2>2. TablesOK'
    BY <1>1, <1>2, <1>3, <1>5, <2>1, EnterStep
  <2> QED BY <1>5, <1>6, <1>11, <2>2 DEF Good
<1> QED BY <1>7, <1>8, <1>9, <1>10, <1>11

LEMMA UnknownPrefixStep ==
    ASSUME IndInv, NEW s \in Server, NEW t \in linked[s], NEW w, WireOK(w),
           NEW n \in Nick, UnknownPrefix(s, t, n, w), UNCHANGED linked
    PROVE  Good
<1> DEFINE k == KillOf(n)
<1>1. t \in Neighbours(s) /\ t \in Server
  BY DEF IndInv, LinkOK
<1>2. k \in Message /\ Carried(k) = {}
  BY KillMessage DEF Carried
<1>3. wire' = [w EXCEPT ![s][t] = Append(@, k)]
  BY DEF UnknownPrefix
<1> HIDE DEF k
<1>4. w[s][t] \in Seq(Message)
  BY <1>1 DEF WireOK
<1>5. Append(w[s][t], k) = w[s][t] \o <<k>>
  BY <1>2, <1>4, AppendIs
<1>6. <<k>> \in Seq(Message) /\ SourcesIn(<<k>>, Via(t, s))
  BY <1>2, OneMessage
<1> DEFINE q == <<k>>
<1> HIDE DEF q
<1>7. WireOK([w EXCEPT ![s][t] = @ \o q])
  BY <1>1, <1>6, WireGrow DEF q
<1>8. WireOK(wire')
  BY <1>3, <1>5, <1>7 DEF q
<1> QED BY <1>8, TablesSame, SameLinks DEF UnknownPrefix, Good, IndInv

LEMMA WrongDirectionStep ==
    ASSUME IndInv, NEW s \in Server, NEW t, NEW w, WireOK(w),
           NEW n, WrongDirection(s, t, n, w), UNCHANGED linked
    PROVE  Good
BY TablesSame, SameLinks DEF WrongDirection, Good, IndInv

LEMMA RecvChangeStep ==
    ASSUME IndInv, NEW s \in Server, NEW t \in linked[s], NEW w, WireOK(w),
           NEW m \in Message, m.type = "CHANGE",
           RecvChange(s, t, m, w), UNCHANGED linked
    PROVE  Good
<1> DEFINE k == KillOf(m.nick)
           o == KillOf(m.old)
<1>1. m.old \in Nick /\ m.nick \in Nick /\ m.ts \in Nat \ {0}
  BY MessageFields
<1>2. k \in Message /\ k.type = "KILL" /\ o \in Message /\ o.type = "KILL"
  BY <1>1, KillMessage
<1>3. TablesOK /\ LinkOK /\ LinkOK'
  BY SameLinks DEF IndInv
<1>4. /\ WireOK(SendButOne(w, s, t, <<m>>))
      /\ WireOK(SendButOne(w, s, t, <<k, m>>))
      /\ WireOK(SendButOne(w, s, t, <<o>>))
      /\ WireOK(SendAll(w, s, <<o, k>>))
  BY <1>2, <1>3, SendPlain, SendTwoPlain DEF SendAll
<1>5. CASE UnknownPrefix(s, t, m.old, w)
  BY <1>1, <1>5, UnknownPrefixStep
<1>6. CASE WrongDirection(s, t, m.old, w)
  BY <1>6, WrongDirectionStep
<1>7. ASSUME NEW src \in Named(s, m.old), src.user \in Via(s, t),
             Rename(s, src, m.nick, m.ts, Named(s, m.nick)),
             wire' = SendButOne(w, s, t, <<m>>)
      PROVE  Good
  <2> DEFINE left == Named(s, m.nick)
  <2>1. /\ left \in SUBSET clients[s] /\ src \in clients[s]
        /\ Named(s, m.nick) \subseteq left
        /\ Rename(s, src, m.nick, m.ts, left)
    BY <1>3, <1>7, NamedFacts
  <2>2. Home[src.user] # s
    BY <1>3, <1>7, Remote
  <2> HIDE DEF left
  <2>3. TablesOK'
    BY <1>1, <1>3, <2>1, <2>2, RenameStep
  <2> QED BY <1>3, <1>4, <1>7, <2>3 DEF Good
<1>8. ASSUME NEW src \in Named(s, m.old), NEW c \in Named(s, m.nick),
             Update(s, {c, src}, {}, {}), wire' = SendAll(w, s, <<o, k>>)
      PROVE  Good
  <2> DEFINE left == {c, src}
  <2>1. left \in SUBSET clients[s] /\ Update(s, left, {}, {})
    BY <1>3, <1>8, NamedFacts
  <2> HIDE DEF left
  <2>2. TablesOK'
    BY <1>3, <2>1, ExitStep
  <2> QED BY <1>3, <1>4, <1>8, <2>2 DEF Good
<1>9. ASSUME NEW src \in Named(s, m.old),
             Update(s, {src}, {}, {}), wire' = SendButOne(w, s, t, <<o>>)
      PROVE  Good
  <2> DEFINE left == {src}
  <2>1. left \in SUBSET clients[s] /\ Update(s, left, {}, {})
    BY <1>3, <1>9, NamedFacts
  <2> HIDE DEF left
  <2>2. TablesOK'
    BY <1>3, <2>1, ExitStep
  <2> QED BY <1>3, <1>4, <1>9, <2>2 DEF Good
<1>10. ASSUME NEW src \in Named(s, m.old), src.user \in Via(s, t),
              NEW c \in Named(s, m.nick),
              Rename(s, src, m.nick, m.ts, {c}),
              wire' = SendButOne(w, s, t, <<k, m>>)
       PROVE  Good
  <2> DEFINE left == {c}
  <2>1. /\ left \in SUBSET clients[s] /\ src \in clients[s]
        /\ Named(s, m.nick) \subseteq left
        /\ Rename(s, src, m.nick, m.ts, left)
    BY <1>3, <1>10, NamedFacts
  <2>2. Home[src.user] # s
    BY <1>3, <1>10, Remote
  <2> HIDE DEF left
  <2>3. TablesOK'
    BY <1>1, <1>3, <2>1, <2>2, RenameStep
  <2> QED BY <1>3, <1>4, <1>10, <2>3 DEF Good
<1>11. \/ UnknownPrefix(s, t, m.old, w)
       \/ WrongDirection(s, t, m.old, w)
       \/ \E src \in Named(s, m.old) :
          /\ src.user \in Via(s, t)
          /\ \/ /\ Rename(s, src, m.nick, m.ts, Named(s, m.nick))
                /\ wire' = SendButOne(w, s, t, <<m>>)
             \/ \E c \in Named(s, m.nick) :
                \/ Update(s, {c, src}, {}, {}) /\ wire' = SendAll(w, s, <<o, k>>)
                \/ Update(s, {src}, {}, {}) /\ wire' = SendButOne(w, s, t, <<o>>)
                \/ /\ Rename(s, src, m.nick, m.ts, {c})
                   /\ wire' = SendButOne(w, s, t, <<k, m>>)
  BY Zenon DEF RecvChange
<1> HIDE DEF k, o
<1> QED BY <1>5, <1>6, <1>7, <1>8, <1>9, <1>10, <1>11

LEMMA RecvKillStep ==
    ASSUME IndInv, NEW s \in Server, NEW t \in linked[s], NEW w, WireOK(w),
           NEW m \in Message, m.type = "KILL",
           RecvKill(s, t, m, w), UNCHANGED linked
    PROVE  Good
<1>1. TablesOK /\ LinkOK /\ LinkOK'
  BY SameLinks DEF IndInv
<1>2. CASE wire' = w /\ UNCHANGED <<clients, online, gone>>
  BY <1>1, <1>2, TablesSame DEF Good
<1>3. ASSUME NEW c \in Victim(s, m.nick), Update(s, {c}, {}, {}),
             \/ wire' = SendAll(w, s, <<KillOf(c.nick)>>)
             \/ wire' = SendButOne(w, s, t, <<KillOf(c.nick)>>)
      PROVE  Good
  <2> DEFINE left == {c}
             k == KillOf(c.nick)
  <2>1. c \in clients[s] /\ c \in Client
    BY <1>1, TableHere DEF Victim, Named
  <2>2. left \in SUBSET clients[s] /\ Update(s, left, {}, {})
    BY <1>3, <2>1
  <2>3. k \in Message /\ k.type = "KILL"
    BY <2>1, ClientFields, KillMessage
  <2>4. wire' = SendAll(w, s, <<k>>) \/ wire' = SendButOne(w, s, t, <<k>>)
    BY <1>3
  <2> HIDE DEF left, k
  <2>5. TablesOK'
    BY <1>1, <2>2, ExitStep
  <2>6. WireOK(wire')
    BY <1>1, <2>3, <2>4, SendPlain DEF SendAll
  <2> QED BY <1>1, <2>5, <2>6 DEF Good
<1> QED BY <1>2, <1>3 DEF RecvKill

LEMMA RecvQuitStep ==
    ASSUME IndInv, NEW s \in Server, NEW t \in linked[s], NEW w, WireOK(w),
           NEW m \in Message, m.type = "QUIT",
           RecvQuit(s, t, m, w), UNCHANGED linked
    PROVE  Good
<1>1. TablesOK /\ LinkOK /\ LinkOK' /\ m.nick \in Nick
  BY SameLinks, MessageFields DEF IndInv
<1>2. CASE UnknownPrefix(s, t, m.nick, w)
  BY <1>1, <1>2, UnknownPrefixStep
<1>3. CASE WrongDirection(s, t, m.nick, w)
  BY <1>3, WrongDirectionStep
<1>4. ASSUME NEW c \in Named(s, m.nick), Update(s, {c}, {}, {}),
             wire' = SendButOne(w, s, t, <<m>>)
      PROVE  Good
  <2> DEFINE left == {c}
  <2>1. left \in SUBSET clients[s] /\ Update(s, left, {}, {})
    BY <1>1, <1>4, NamedFacts
  <2> HIDE DEF left
  <2>2. TablesOK'
    BY <1>1, <2>1, ExitStep
  <2>3. WireOK(wire')
    BY <1>1, <1>4, SendPlain
  <2> QED BY <1>1, <2>2, <2>3 DEF Good
<1> QED BY <1>2, <1>3, <1>4 DEF RecvQuit

LEMMA RecvSquitStep ==
    ASSUME IndInv, NEW s \in Server, NEW t \in linked[s], NEW w, WireOK(w),
           NEW m \in Message, m.type = "SQUIT",
           RecvSquit(s, t, m, w), UNCHANGED linked
    PROVE  Good
<1> DEFINE left == {c \in clients[s] : c.user \in m.users}
<1>1. TablesOK /\ LinkOK /\ LinkOK'
  BY SameLinks DEF IndInv
<1>2. left \in SUBSET clients[s] /\ Update(s, left, {}, {})
  BY DEF RecvSquit
<1> HIDE DEF left
<1>3. TablesOK'
  BY <1>1, <1>2, ExitStep
<1>4. WireOK(wire')
  BY <1>1, SendPlain DEF RecvSquit
<1> QED BY <1>1, <1>3, <1>4 DEF Good

LEMMA CloseLinkStep ==
    ASSUME IndInv, NEW s \in Server, NEW t \in linked[s], NEW w, WireOK(w),
           CloseLink(s, t, w)
    PROVE  Good
<1> DEFINE left == {c \in clients[s] : c.user \in Via(s, t)}
           C == clients[s] \ left
           h == OffHistory(online[s], left)
           G == Leavers(s, left)
           L == linked[s] \ {t}
           m == [type |-> "SQUIT", users |-> Via(s, t)]
<1>1. TablesOK /\ LinkOK
  BY DEF IndInv
<1>2. linked' = [linked EXCEPT ![s] = L] /\ LinkOK'
  BY <1>1 DEF CloseLink, LinkOK
<1>3. \A x \in Server : linked'[x] = IF x = s THEN L ELSE linked[x]
  BY <1>1, <1>2 DEF LinkOK
<1>4. left \in SUBSET clients[s] /\ Update(s, left, {}, {})
  BY DEF CloseLink
<1>5. TableOK(s, C, h, gone \cup G, linked[s])
  BY <1>1, <1>4, TableHere, TableExit
<1>6. TableOK(s, C, h, gone \cup G, L)
  <2>1. \A c \in C : Placed(s, c, gone \cup G, L)
    BY <1>5 DEF TableOK, Placed
  <2> QED BY <1>5, <2>1 DEF TableOK
<1>7. /\ clients' = [clients EXCEPT ![s] = C]
      /\ online' = [online EXCEPT ![s] = h]
      /\ gone' = gone \cup G
  <2>1. (clients[s] \ (left \cup {})) \cup {} = C
    OBVIOUS
  <2> QED BY <1>4, <2>1 DEF Update, Leavers
<1>8. G \in SUBSET Own(s)
  BY <1>1, <1>4, TableHere, LeaversOwn
<1>9. m \in Message /\ m.type = "SQUIT" /\ wire' = SendButOne(w, s, t, <<m>>)
  BY DEF Message, Via, CloseLink
<1> HIDE DEF C, h, G, L, left, m
<1>10. TablesOK'
  BY <1>1, <1>3, <1>6, <1>7, <1>8, TablesStep
<1>11. WireOK(wire')
  BY <1>1, <1>9, SendPlain
<1> QED BY <1>2, <1>10, <1>11 DEF Good

\* One more link.
LEMMA MoreLinks ==
    ASSUME TablesOK, LinkOK, NEW s \in Server, NEW t \in Neighbours(s),
           linked' = [linked EXCEPT ![s] = @ \cup {t}],
           UNCHANGED <<clients, online, gone>>
    PROVE  TablesOK' /\ LinkOK'
<1>1. t \in Server
  BY DEF Neighbours
<1>2. LinkOK'
  BY <1>1 DEF LinkOK
<1>3. \A x \in Server : linked[x] \subseteq linked'[x]
  BY DEF LinkOK
<1>4. \A x \in Server : \A c : Placed(x, c, gone, linked[x]) => Placed(x, c, gone, linked'[x])
  BY <1>3 DEF Placed
<1>5. \A x \in Server : TableOK(x, clients[x], online[x], gone, linked'[x])
  BY <1>4 DEF TablesOK, TableOK
<1> QED BY <1>2, <1>5 DEF TablesOK

LEMMA BurstStep ==
    ASSUME IndInv, NEW s \in Server, NEW t \in Neighbours(s), NEW w, WireOK(w),
           BurstTo(s, t, w)
    PROVE  WireOK(wire')
<1> DEFINE told == {c \in clients[s] : c.registered /\ c.user \notin Via(s, t)}
           N == Cardinality(told)
<1>1. clients[s] \in SUBSET Client /\ IsFiniteSet(clients[s])
  BY TableHere DEF IndInv, TableOK
<1>2. IsFiniteSet(told) /\ told \in SUBSET Client
  BY <1>1, FS_Subset
<1>3. N \in Nat
  BY <1>2, FS_CardinalityType
<1>4. PICK order \in [1..N -> told] :
          wire' = [w EXCEPT ![s][t] =
                       @ \o [i \in DOMAIN order |-> Introduction(order[i])]]
  BY DEF BurstTo
<1> DEFINE q == [i \in 1..N |-> Introduction(order[i])]
<1>5. wire' = [w EXCEPT ![s][t] = @ \o q]
  BY <1>4
<1>6. \A i \in 1..N : order[i] \in told
  BY <1>4
<1>7. \A c \in told : /\ Introduction(c) \in Message
                      /\ Carried(Introduction(c)) \subseteq Via(t, s)
  <2>1. ASSUME NEW c \in told
        PROVE  /\ Introduction(c) \in Message
               /\ Carried(Introduction(c)) \subseteq Via(t, s)
    <3>1. c.user \in User /\ c.nick \in Nick /\ c.ts \in Nat \ {0}
      BY <1>2, ClientFields
    <3>2. c.user \in Via(t, s)
      BY <3>1, ViaFacts
    <3> QED BY <3>1, <3>2 DEF Introduction, Message, Carried
  <2> QED BY <2>1
<1> HIDE DEF told, N
<1>8. q \in Seq(Message) /\ Len(q) = N
  BY <1>3, <1>6, <1>7
<1>9. SourcesIn(q, Via(t, s))
  BY <1>6, <1>7, <1>8 DEF SourcesIn
<1> HIDE DEF q
<1> QED BY <1>5, <1>8, <1>9, WireGrow

LEMMA ReceiveStep ==
    ASSUME IndInv, NEW s \in Server, NEW t \in Server, Receive(s, t)
    PROVE  Good
<1> DEFINE m == Head(wire[t][s])
           w == [wire EXCEPT ![t][s] = Tail(@)]
           v == [w EXCEPT ![s][t] = <<>>]
<1>1. /\ WireOK(w) /\ t \in Neighbours(s)
      /\ m \in Message /\ Carried(m) \subseteq Via(s, t)
  BY WireTail DEF Receive, IndInv
<1>2. WireOK(v)
  <2> HIDE DEF w
  <2> QED BY <1>1, Empty, WireSet
<1>3. \/ m.type = "SERVER" /\ RecvServer(s, t, m, w)
      \/ t \in linked[s] /\ CloseLink(s, t, v)
      \/ /\ t \in linked[s] /\ UNCHANGED linked
         /\ \/ m.type = "NICK" /\ RecvNick(s, t, m, w)
            \/ m.type = "CHANGE" /\ RecvChange(s, t, m, w)
            \/ m.type = "KILL" /\ RecvKill(s, t, m, w)
            \/ m.type = "QUIT" /\ RecvQuit(s, t, m, w)
            \/ m.type = "SQUIT" /\ RecvSquit(s, t, m, w)
  BY DEF Receive
<1> HIDE DEF m, w, v
<1>4. CASE m.type = "SERVER" /\ RecvServer(s, t, m, w)
  <2>1. WireOK(wire')
    BY <1>1, <1>4, BurstStep DEF RecvServer
  <2>2. TablesOK' /\ LinkOK'
    BY <1>1, <1>4, MoreLinks DEF RecvServer, IndInv
  <2> QED BY <2>1, <2>2 DEF Good
<1>5. CASE t \in linked[s] /\ CloseLink(s, t, v)
  BY <1>2, <1>5, CloseLinkStep
<1>6. CASE t \in linked[s] /\ UNCHANGED linked /\ m.type = "NICK" /\ RecvNick(s, t, m, w)
  BY <1>1, <1>6, RecvNickStep
<1>7. CASE t \in linked[s] /\ UNCHANGED linked /\ m.type = "CHANGE" /\ RecvChange(s, t, m, w)
  BY <1>1, <1>7, RecvChangeStep
<1>8. CASE t \in linked[s] /\ UNCHANGED linked /\ m.type = "KILL" /\ RecvKill(s, t, m, w)
  BY <1>1, <1>8, RecvKillStep
<1>9. CASE t \in linked[s] /\ UNCHANGED linked /\ m.type = "QUIT" /\ RecvQuit(s, t, m, w)
  BY <1>1, <1>9, RecvQuitStep
<1>10. CASE t \in linked[s] /\ UNCHANGED linked /\ m.type = "SQUIT" /\ RecvSquit(s, t, m, w)
  BY <1>1, <1>10, RecvSquitStep
<1> QED BY <1>3, <1>4, <1>5, <1>6, <1>7, <1>8, <1>9, <1>10

-----------------------------------------------------------------------------
(* Commands of clients and events on links                                 *)

LEMMA ClockIs ==
    ASSUME RestOK, NEW s \in Server, NEW now \in script.clock[s]
    PROVE  now \in Nat \ {0}
BY NickAssumption DEF RestOK

\* Only holders that never registered make room for a client's nick.
LEMMA FirstNickStep ==
    ASSUME IndInv, NEW s \in Server, NEW u \in User, NEW n \in Nick,
           NEW now \in script.clock[s], FirstNick(s, u, n, now)
    PROVE  Good
<1> DEFINE new == [user |-> u, nick |-> n, ts |-> now, registered |-> FALSE]
           left == Named(s, n)
<1>1. TablesOK /\ LinkOK /\ LinkOK' /\ now \in Nat \ {0} /\ UNCHANGED <<linked, wire>>
  BY SameLinks, ClockIs DEF IndInv, FirstNick
<1>2. new \in Client /\ new.user = u /\ new.nick = n
  BY <1>1 DEF Client
<1>3. left \in SUBSET clients[s] /\ Update(s, left, {}, {new})
  BY <1>1, NamedFacts DEF FirstNick
<1>4. Named(s, new.nick) \subseteq left
  BY <1>2
<1>5. Home[u] = s /\ u \notin gone /\ \A c \in clients[s] : c.user # u
  BY DEF FirstNick
<1> HIDE DEF new, left
<1>6. TablesOK'
  BY <1>1, <1>2, <1>3, <1>4, <1>5, EnterStep
<1> QED BY <1>1, <1>6 DEF Good, IndInv

LEMMA RegisterStep ==
    ASSUME IndInv, NEW s \in Server, NEW c \in clients[s], Register(s, c)
    PROVE  Good
<1> DEFINE new == [c EXCEPT !.registered = TRUE]
           C == (clients[s] \ {c}) \cup {new}
           h == online[s]
           m == Introduction(c)
<1>1. /\ TablesOK /\ LinkOK /\ LinkOK' /\ WireOK(wire)
      /\ UNCHANGED <<linked, online, gone>>
  BY SameLinks DEF IndInv, Register
<1>2. c \in Client /\ new \in Client /\ new.user = c.user /\ new.nick = c.nick
  BY <1>1, TableHere DEF Client
<1>3. TableOK(s, clients[s], h, gone, linked[s])
  BY <1>1, TableHere
<1>4. \A d \in clients[s] : d.nick = new.nick => d = c
  BY <1>2, <1>3 DEF TableOK, Unique
<1>5. clients' = [clients EXCEPT ![s] = C] /\ online' = [online EXCEPT ![s] = h]
      /\ gone' = gone \cup {}
  BY <1>1 DEF Register, TablesOK
<1>6. /\ m \in Message /\ wire' = SendAll(wire, s, <<m>>)
      /\ Carried(m) = {c.user} /\ c.user \in Own(s)
  BY <1>2, ClientFields DEF Register, Introduction, Message, Carried, Own, Local
<1> HIDE DEF new, h, m
<1>7. TableOK(s, C, h, gone, linked[s])
  BY <1>2, <1>3, <1>4, TableReplace
<1>8. gone = gone \cup {} /\ {} \in SUBSET Own(s)
  OBVIOUS
<1> DEFINE G == {}
<1> HIDE DEF C, G
<1>9. TablesOK'
  <2>1. /\ G \in SUBSET Own(s) /\ gone' = gone \cup G
        /\ TableOK(s, C, h, gone \cup G, linked'[s])
    BY <1>1, <1>5, <1>7, <1>8 DEF G
  <2> QED BY <1>1, <1>5, <2>1, TablesStep
<1>10. <<m>> \in Seq(Message)
       /\ \A x \in linked[s] \ {s} : SourcesIn(<<m>>, Via(x, s))
  <2>1. \A x \in linked[s] : Carried(m) \subseteq Via(x, s)
    BY <1>1, <1>6, ViaFacts DEF LinkOK
  <2> QED BY <1>6, <2>1, OneMessage
<1>11. WireOK(wire')
  BY <1>1, <1>6, <1>10, WireSend DEF SendAll
<1> QED BY <1>1, <1>9, <1>11 DEF Good

LEMMA ChangeNickStep ==
    ASSUME IndInv, NEW s \in Server, NEW c \in clients[s], NEW n \in Nick,
           NEW now \in script.clock[s], NEW paused,
           ChangeNick(s, c, n, now, paused)
    PROVE  Good
<1> DEFINE left == Named(s, n)
           m == [type |-> "CHANGE", old |-> c.nick, nick |-> n, ts |-> now]
           new == [c EXCEPT !.ts = now]
<1>1. /\ TablesOK /\ LinkOK /\ LinkOK' /\ WireOK(wire) /\ now \in Nat \ {0}
      /\ UNCHANGED linked
  BY SameLinks, ClockIs DEF IndInv, ChangeNick
<1>2. c \in Client /\ new \in Client /\ new.user = c.user /\ new.nick = c.nick
  BY <1>1, TableHere DEF Client
<1>3. m \in Message /\ m.type = "CHANGE"
  BY <1>1, <1>2, ClientFields DEF Message
<1>4. left \in SUBSET clients[s] /\ c \notin left /\ Named(s, n) \subseteq left
  BY <1>1, NamedFacts DEF ChangeNick
<1>5. /\ \/ Rename(s, c, n, now, left)
         \/ Update(s, left, {c}, {new})
      /\ wire' = wire \/ wire' = SendAll(wire, s, <<m>>)
  BY DEF ChangeNick
<1> HIDE DEF left, m, new
<1>6. TablesOK'
  <2>1. CASE Rename(s, c, n, now, left)
    BY <1>1, <1>4, <2>1, RenameStep
  <2>2. CASE Update(s, left, {c}, {new})
    BY <1>1, <1>2, <1>4, <2>2, RetimeStep
  <2> QED BY <1>5, <2>1, <2>2
<1>7. WireOK(wire')
  BY <1>1, <1>3, <1>5, SendPlain DEF SendAll
<1> QED BY <1>1, <1>6, <1>7 DEF Good

LEMMA QuitStep ==
    ASSUME IndInv, NEW s \in Server, NEW c \in clients[s], Quit(s, c)
    PROVE  Good
<1> DEFINE left == {c}
           m == [type |-> "QUIT", nick |-> c.nick]
<1>1. TablesOK /\ LinkOK /\ LinkOK' /\ WireOK(wire) /\ UNCHANGED linked
  BY SameLinks DEF IndInv, Quit
<1>2. c.nick \in Nick
  BY <1>1, TableHere, ClientFields
<1>3. m \in Message /\ m.type = "QUIT"
  BY <1>2 DEF Message
<1>4. left \in SUBSET clients[s] /\ Update(s, left, {}, {})
      /\ (wire' = wire \/ wire' = SendAll(wire, s, <<m>>))
  BY DEF Quit
<1> HIDE DEF left, m
<1>5. TablesOK'
  BY <1>1, <1>4, ExitStep
<1>6. WireOK(wire')
  BY <1>1, <1>3, <1>4, SendPlain DEF SendAll
<1> QED BY <1>1, <1>5, <1>6 DEF Good

LEMMA KillStep ==
    ASSUME IndInv, NEW s \in Server, NEW c \in clients[s], Kill(s, c)
    PROVE  Good
<1> DEFINE left == {c}
           m == KillOf(c.nick)
<1>1. TablesOK /\ LinkOK /\ LinkOK' /\ WireOK(wire) /\ UNCHANGED linked
  BY SameLinks DEF IndInv, Kill
<1>2. c.nick \in Nick
  BY <1>1, TableHere, ClientFields
<1>3. m \in Message /\ m.type = "KILL"
  BY <1>2, KillMessage
<1>4. left \in SUBSET clients[s] /\ Update(s, left, {}, {})
      /\ wire' = SendAll(wire, s, <<m>>)
  BY DEF Kill
<1> HIDE DEF left, m
<1>5. TablesOK'
  BY <1>1, <1>4, ExitStep
<1>6. WireOK(wire')
  BY <1>1, <1>3, <1>4, SendPlain DEF SendAll
<1> QED BY <1>1, <1>5, <1>6 DEF Good

LEMMA LinkStep ==
    ASSUME IndInv, NEW s \in Server, NEW t \in Server, Link(s, t)
    PROVE  Good
<1> DEFINE m == [type |-> "SERVER"]
           w == [wire EXCEPT ![s][t] = <<m>>]
<1>1. t \in Neighbours(s) /\ m \in Message /\ Carried(m) = {}
  BY DEF Link, Message, Carried
<1>2. BurstTo(s, t, w)
  BY DEF Link
<1> HIDE DEF m
<1>3. <<m>> \in Seq(Message) /\ SourcesIn(<<m>>, Via(t, s))
  BY <1>1, OneMessage
<1>4. WireOK(w)
  <2> DEFINE q == <<m>>
  <2>1. q \in Seq(Message) /\ SourcesIn(q, Via(t, s))
    BY <1>3
  <2> HIDE DEF q
  <2>2. WireOK([wire EXCEPT ![s][t] = q])
    BY <1>1, <2>1, WireSet DEF IndInv
  <2> QED BY <2>2 DEF q
<1> HIDE DEF w
<1>5. WireOK(wire')
  BY <1>1, <1>2, <1>4, BurstStep
<1>6. TablesOK' /\ LinkOK'
  BY <1>1, MoreLinks DEF Link, IndInv
<1> QED BY <1>5, <1>6 DEF Good

LEMMA SplitStep ==
    ASSUME IndInv, NEW s \in Server, NEW t \in Server, Split(s, t)
    PROVE  Good
<1> DEFINE m == [type |-> "EOF"]
           v == [wire EXCEPT ![t][s] = <<>>]
<1>1. t \in linked[s] /\ t \in Neighbours(s) /\ s # t
  BY ViaFacts DEF Split, IndInv, LinkOK
<1>2. m \in Message /\ Carried(m) = {}
  BY DEF Message, Carried
<1>3. PICK q \in {<<>>, Append(wire[s][t], m)} :
          CloseLink(s, t, [wire EXCEPT ![t][s] = <<>>, ![s][t] = q])
  BY DEF Split
<1>4. [wire EXCEPT ![t][s] = <<>>, ![s][t] = q] = [v EXCEPT ![s][t] = q]
  BY DEF v
<1>5. WireOK(v)
  BY Empty, WireSet DEF IndInv
<1>6. wire[s][t] \in Seq(Message) /\ SourcesIn(wire[s][t], Via(t, s))
  BY DEF IndInv, WireOK
<1> HIDE DEF m, v
<1>7. Append(wire[s][t], m) = wire[s][t] \o <<m>>
  BY <1>2, <1>6, AppendIs
<1>8. <<m>> \in Seq(Message) /\ SourcesIn(<<m>>, Via(t, s))
  BY <1>2, OneMessage
<1>9. /\ wire[s][t] \o <<m>> \in Seq(Message)
      /\ SourcesIn(wire[s][t] \o <<m>>, Via(t, s))
  BY <1>6, <1>8, ConcatSources
<1>10. q \in Seq(Message) /\ (q = <<>> \/ SourcesIn(q, Via(t, s)))
  <2>1. CASE q = <<>>
    BY <2>1
  <2>2. CASE q = wire[s][t] \o <<m>>
    BY <1>9, <2>2
  <2> QED BY <1>3, <1>7, <2>1, <2>2
<1>11. WireOK([v EXCEPT ![s][t] = q])
  BY <1>1, <1>5, <1>10, WireSet
<1>12. CloseLink(s, t, [v EXCEPT ![s][t] = q])
  BY <1>3, <1>4
<1> QED BY <1>1, <1>11, <1>12, CloseLinkStep

-----------------------------------------------------------------------------
(* Theorems                                                                *)

LEMMA InitInv == Init => IndInv
<1> SUFFICES ASSUME Init PROVE IndInv
  OBVIOUS
<1>1. TablesOK
  <2>1. IsFiniteSet({})
    BY FS_EmptySet
  <2> QED BY <2>1 DEF Init, TablesOK, TableOK, Unique, HistoryIn
<1>2. LinkOK
  BY DEF Init, LinkOK
<1>3. WireOK(wire)
  BY Empty DEF Init, WireOK
<1>4. RestOK
  BY NickAssumption DEF Init, RestOK
<1> QED BY <1>1, <1>2, <1>3, <1>4 DEF IndInv

LEMMA RestStep ==
    ASSUME IndInv, Next
    PROVE  RestOK'
<1>1. RestOK
  BY DEF IndInv
<1>2. ASSUME NEW s, NEW name, Command(s, name)
      PROVE  script' = script /\ budget' \in Nat
  BY <1>1, <1>2 DEF Command, RestOK
<1>3. ASSUME NEW s \in Server, NEW now, Stamp(s, now)
      PROVE  time' \in [Server -> Nat]
  BY <1>1, <1>3, ClockIs DEF Stamp, RestOK
<1>4. ASSUME NEW s \in Server, NEW t \in Server, Receive(s, t)
      PROVE  RestOK'
  BY <1>1, <1>4 DEF Receive, RestOK
<1>5. ASSUME NEW s \in Server, NEW u \in User, NEW n \in Nick, NEW now,
             FirstNick(s, u, n, now)
      PROVE  RestOK'
  BY <1>1, <1>2, <1>3, <1>5 DEF FirstNick, RestOK
<1>6. ASSUME NEW s \in Server, NEW c \in clients[s], NEW n \in Nick, NEW now,
             NEW paused, ChangeNick(s, c, n, now, paused)
      PROVE  RestOK'
  <2>1. script' = script /\ budget' \in Nat /\ time' \in [Server -> Nat]
    BY <1>2, <1>3, <1>6 DEF ChangeNick
  <2>2. c.user \in User
    BY TableHere, ClientFields DEF IndInv
  <2>3. changes[c.user] \in Nat /\ changes \in [User -> Nat]
    BY <1>1, <2>2 DEF RestOK
  <2>4. \/ changes' = changes
        \/ changes' = [changes EXCEPT ![c.user] =
                           (IF paused THEN 0 ELSE changes[c.user]) + 1]
    BY <1>6 DEF ChangeNick
  <2>5. changes' \in [User -> Nat]
    BY <2>3, <2>4
  <2> QED BY <1>1, <2>1, <2>5 DEF RestOK
<1>7. ASSUME NEW s \in Server, NEW c \in clients[s], Register(s, c) \/ Quit(s, c) \/ Kill(s, c)
      PROVE  RestOK'
  BY <1>1, <1>2, <1>7 DEF Register, Quit, Kill, RestOK
<1>8. ASSUME NEW s \in Server, NEW t \in Server, Link(s, t) \/ Split(s, t)
      PROVE  RestOK'
  BY <1>1, <1>2, <1>8 DEF Link, Split, RestOK
<1> QED BY <1>4, <1>5, <1>6, <1>7, <1>8 DEF Next

LEMMA NextGood ==
    ASSUME IndInv, Next
    PROVE  Good
BY ReceiveStep, FirstNickStep, RegisterStep, ChangeNickStep, QuitStep, KillStep,
   LinkStep, SplitStep DEF Next

LEMMA StepInv == IndInv /\ [Next]_vars => IndInv'
<1> SUFFICES ASSUME IndInv, [Next]_vars PROVE IndInv'
  OBVIOUS
<1>1. CASE Next
  BY <1>1, NextGood, RestStep DEF Good, IndInv, WireOK
<1>2. CASE UNCHANGED vars
  <2>1. TablesOK' /\ LinkOK'
    BY <1>2, TablesSame, SameLinks DEF vars, IndInv
  <2> QED BY <1>2, <2>1 DEF vars, IndInv, WireOK, RestOK
<1> QED BY <1>1, <1>2

THEOREM Invariance == Spec => []IndInv
BY InitInv, StepInv, PTL DEF Spec

LEMMA InvMeans == IndInv => NicksSound
<1> SUFFICES ASSUME IndInv PROVE NicksSound
  OBVIOUS
<1>1. TypeOK
  BY DEF IndInv, TablesOK, LinkOK, WireOK, RestOK, TypeOK
<1>2. NicksUnique /\ HistorySound /\ NoGhosts
  BY DEF IndInv, TablesOK, TableOK, Unique, HistoryIn, Placed, NicksUnique,
         HistorySound, NoGhosts, Local
<1> QED BY <1>1, <1>2 DEF NicksSound

\* NicksSound: however m_nick, m_kill and the splits interleave on any tree of
\* servers, no server ever has two clients of one nick, no history entry points
\* to a client that left, and nobody is kept from behind a link that broke.
THEOREM NicksAlwaysSound == Spec => []NicksSound
BY Invariance, InvMeans, PTL
=============================================================================
