--------------------------- MODULE ChannelTSProofs ---------------------------
(***************************************************************************)
(* Proofs about ChannelTS, for any tree of servers, any clients and any    *)
(* number of commands: the type invariant, the structure of every server's *)
(* channel, the absence of ghosts and of lost clients, and that a channel's *)
(* timestamp never rises.                                                  *)
(***************************************************************************)
EXTENDS ChannelTS, SequenceTheorems, TLAPS

-----------------------------------------------------------------------------
(* The inductive invariant, in parts that talk about one channel and one    *)
(* set of streams.                                                          *)

\* The structure of one server's channel, K being the clients it knows.
ChanOK(c, K) ==
    /\ c \in Chan
    /\ c.members \subseteq K
    /\ c.ops \subseteq c.members
    /\ c.voices \subseteq c.members
    /\ c.deopped \subseteq c.members
    /\ c.ops \cap c.deopped = {}
    /\ c.exists \/ c = NoChan

\* What the messages of q introduce or take away is in V.
SourcesIn(q, V) == \A i \in 1..Len(q) : Carried(q[i]) \subseteq V

\* The streams are between neighbours and carry what lies behind the sender.
WireOK(w) ==
    /\ w \in [Server -> [Server -> Seq(Message)]]
    /\ \A s, t \in Server : w[s][t] # <<>> => t \in Neighbours(s)
    /\ \A s, t \in Server : SourcesIn(w[s][t], Via(t, s))

LinkOK == /\ linked \in [Server -> SUBSET Server]
          /\ \A s \in Server : linked[s] \subseteq Neighbours(s)

Own(s) == {u \in User : Home[u] = s}

\* The clients that s may know, given its links.
Reach(s, L) == Own(s) \cup UNION {Via(s, t) : t \in L}

KnownOK ==
    /\ known \in [Server -> SUBSET User]
    /\ gone \subseteq User
    /\ \A s \in Server : known[s] \subseteq Reach(s, linked[s])
    /\ \A s \in Server : Own(s) \ known[s] \subseteq gone

ChansOK ==
    /\ chan \in [Server -> Chan]
    /\ \A s \in Server : ChanOK(chan[s], known[s])

IndInv ==
    /\ ChansOK /\ KnownOK /\ LinkOK /\ WireOK(wire)
    /\ script \in Scripts /\ budget \in Nat

-----------------------------------------------------------------------------
(* Topology                                                                *)

\* A server's own clients are behind none of its links, and those behind one
\* link are on the near side of every other.
LEMMA ViaFacts ==
    ASSUME NEW s \in Server, NEW t \in Neighbours(s)
    PROVE  /\ t \in Server /\ s \in Neighbours(t) /\ s # t
           /\ Via(s, t) \subseteq User
           /\ Own(s) \cap Via(s, t) = {}
           /\ Via(t, s) = User \ Via(s, t)
           /\ \A x \in Neighbours(s) \ {t} : Via(s, t) \subseteq Via(x, s)
<1>1. t \in Server /\ s # t
  BY DEF Neighbours
<1>2. s \in Neighbours(t) /\ Via(t, s) = User \ Via(s, t)
  BY TreeAssumption
<1>3. Via(s, t) \subseteq User /\ Own(s) \cap Via(s, t) = {}
  BY DEF Via, Own
<1>4. ASSUME NEW x \in Neighbours(s) \ {t}
      PROVE  Via(s, t) \subseteq Via(x, s)
  <2>1. Via(x, s) = User \ Via(s, x)
    BY TreeAssumption
  <2>2. Via(s, t) \cap Via(s, x) = {}
    BY <1>4 DEF Via
  <2> QED BY <2>1, <2>2, <1>3
<1> QED BY <1>1, <1>2, <1>3, <1>4

-----------------------------------------------------------------------------
(* Messages and streams                                                    *)

LEMMA MessageFields ==
    ASSUME NEW m \in Message
    PROVE  /\ m.type = "SJOIN" => m \in SjoinMsg
           /\ m.type \in {"NICK", "SQUIT"} => m.users \subseteq User
           /\ m.type \in {"PART", "QUIT", "KILL"} => m.who \in User
           /\ m.type = "KICK" => m.by \in User /\ m.who \in User
           /\ m.type = "MODE" => m.by \in Source /\ m.change \in Change
BY DEF Message, SjoinMsg

LEMMA TailSources ==
    ASSUME NEW q \in Seq(Message), q # <<>>, NEW V, SourcesIn(q, V)
    PROVE  /\ Tail(q) \in Seq(Message)
           /\ SourcesIn(Tail(q), V)
           /\ Head(q) \in Message
           /\ Carried(Head(q)) \subseteq V
<1>1. Len(q) \in Nat /\ Len(q) > 0 /\ Len(Tail(q)) = Len(q) - 1
  OBVIOUS
<1>2. \A i \in 1..Len(Tail(q)) : Tail(q)[i] = q[i + 1]
  OBVIOUS
<1>3. Head(q) = q[1] /\ Head(q) \in Message /\ Tail(q) \in Seq(Message)
  OBVIOUS
<1> QED BY <1>1, <1>2, <1>3 DEF SourcesIn

LEMMA ConcatSources ==
    ASSUME NEW q \in Seq(Message), NEW r \in Seq(Message), NEW V,
           SourcesIn(q, V), SourcesIn(r, V)
    PROVE  q \o r \in Seq(Message) /\ SourcesIn(q \o r, V)
<1>1. Len(q) \in Nat /\ Len(r) \in Nat /\ Len(q \o r) = Len(q) + Len(r)
      /\ q \o r \in Seq(Message)
  OBVIOUS
<1>2. \A i \in 1..Len(q \o r) :
          (q \o r)[i] = IF i <= Len(q) THEN q[i] ELSE r[i - Len(q)]
  OBVIOUS
<1>3. ASSUME NEW i \in 1..Len(q \o r)
      PROVE  Carried((q \o r)[i]) \subseteq V
  <2>1. CASE i <= Len(q)
    BY <1>1, <1>2, <2>1 DEF SourcesIn
  <2>2. CASE ~(i <= Len(q))
    <3>1. i - Len(q) \in 1..Len(r) /\ (q \o r)[i] = r[i - Len(q)]
      BY <1>1, <1>2, <2>2
    <3> QED BY <3>1 DEF SourcesIn
  <2> QED BY <2>1, <2>2
<1> QED BY <1>1, <1>3 DEF SourcesIn

\* Reading the next message of a stream.
LEMMA WireTail ==
    ASSUME NEW w, WireOK(w), NEW s \in Server, NEW t \in Server,
           w[t][s] # <<>>
    PROVE  /\ WireOK([w EXCEPT ![t][s] = Tail(@)])
           /\ t \in Neighbours(s)
           /\ Head(w[t][s]) \in Message
           /\ Carried(Head(w[t][s])) \subseteq Via(s, t)
<1>1. /\ w[t][s] \in Seq(Message)
      /\ SourcesIn(w[t][s], Via(s, t))
      /\ s \in Neighbours(t)
  BY DEF WireOK
<1>2. t \in Neighbours(s)
  BY <1>1, ViaFacts
<1>3. /\ Tail(w[t][s]) \in Seq(Message)
      /\ SourcesIn(Tail(w[t][s]), Via(s, t))
      /\ Head(w[t][s]) \in Message
      /\ Carried(Head(w[t][s])) \subseteq Via(s, t)
  BY <1>1, TailSources
<1>4. WireOK([w EXCEPT ![t][s] = Tail(@)])
  BY <1>1, <1>3 DEF WireOK
<1> QED BY <1>2, <1>3, <1>4

\* Replacing the contents of one stream.
LEMMA WireSet ==
    ASSUME NEW w, WireOK(w), NEW s \in Server, NEW t \in Server,
           NEW q \in Seq(Message),
           q = <<>> \/ (t \in Neighbours(s) /\ SourcesIn(q, Via(t, s)))
    PROVE  WireOK([w EXCEPT ![s][t] = q])
<1>1. SourcesIn(q, Via(t, s))
  <2>1. CASE q = <<>>
    <3>1. 1..Len(q) = {}
      BY <2>1
    <3> QED BY <3>1 DEF SourcesIn
  <2> QED BY <2>1
<1> QED BY <1>1 DEF WireOK

\* Sending to every linked server but t.
LEMMA WireSend ==
    ASSUME NEW w, WireOK(w), LinkOK, NEW s \in Server, NEW t,
           NEW msgs \in Seq(Message),
           \A x \in linked[s] \ {t} : SourcesIn(msgs, Via(x, s))
    PROVE  WireOK(SendButOne(w, s, t, msgs))
<1> DEFINE W == SendButOne(w, s, t, msgs)
<1>1. \A x, y \in Server :
        W[x][y] = IF x = s /\ y \in linked[s] \ {t}
                  THEN w[x][y] \o msgs ELSE w[x][y]
  BY DEF SendButOne, WireOK
<1>2. ASSUME NEW y \in linked[s] \ {t}
      PROVE  /\ y \in Neighbours(s)
             /\ w[s][y] \o msgs \in Seq(Message)
             /\ SourcesIn(w[s][y] \o msgs, Via(y, s))
  <2>1. y \in Server /\ y \in Neighbours(s)
    BY DEF LinkOK
  <2>2. w[s][y] \in Seq(Message) /\ SourcesIn(w[s][y], Via(y, s))
    BY <2>1 DEF WireOK
  <2> QED BY <2>1, <2>2, ConcatSources
<1>3. W \in [Server -> [Server -> Seq(Message)]]
  BY <1>2 DEF SendButOne, WireOK
<1>4. \A x, y \in Server : W[x][y] # <<>> => y \in Neighbours(x)
  BY <1>1, <1>2 DEF WireOK
<1>5. ASSUME NEW x \in Server, NEW y \in Server
      PROVE  SourcesIn(W[x][y], Via(y, x))
  <2>1. CASE x = s /\ y \in linked[s] \ {t}
    <3>1. W[s][y] = w[s][y] \o msgs
      BY <1>1, <2>1
    <3> QED BY <1>2, <2>1, <3>1
  <2>2. CASE ~(x = s /\ y \in linked[s] \ {t})
    <3>1. W[x][y] = w[x][y]
      BY <1>1, <2>2
    <3> QED BY <3>1 DEF WireOK
  <2> QED BY <2>1, <2>2
<1> HIDE DEF W
<1> QED BY <1>3, <1>4, <1>5 DEF WireOK, W

\* A message about no client coming or going may be sent anywhere.
LEMMA PlainMessages ==
    ASSUME NEW m \in Message, m.type \notin {"NICK", "SQUIT", "QUIT"}, NEW V
    PROVE  /\ <<m>> \in Seq(Message)
           /\ SourcesIn(<<m>>, V)
BY DEF SourcesIn, Carried

LEMMA OneMessage ==
    ASSUME NEW m \in Message, NEW V, Carried(m) \subseteq V
    PROVE  /\ <<m>> \in Seq(Message)
           /\ SourcesIn(<<m>>, V)
BY DEF SourcesIn

-----------------------------------------------------------------------------
(* Channels                                                                *)

LEMMA NoChanOK == \A K : ChanOK(NoChan, K)
<1>1. NoChan \in Chan
  BY DataAssumption DEF NoChan, Chan, NoMode, Mode
<1> QED BY <1>1 DEF ChanOK, NoChan

LEMMA RemoveUsersOK ==
    ASSUME NEW c, NEW K, ChanOK(c, K), NEW gs
    PROVE  ChanOK(RemoveUsers(c, gs), K \ gs)
<1>1. CASE gs \cap c.members = {}
  <2>1. RemoveUsers(c, gs) = c
    BY <1>1 DEF RemoveUsers
  <2> QED BY <1>1, <2>1 DEF ChanOK
<1>2. CASE gs \cap c.members # {}
  <2> DEFINE d == [c EXCEPT !.members = @ \ gs, !.ops = @ \ gs,
                            !.voices = @ \ gs, !.deopped = @ \ gs]
  <2>1. RemoveUsers(c, gs) \in {d, NoChan}
    BY <1>2 DEF RemoveUsers, Sub1FromChannel
  <2>2. d \in Chan
    BY DEF ChanOK, Chan
  <2>3. d.members = c.members \ gs /\ d.ops = c.ops \ gs /\ d.exists = c.exists
        /\ d.voices = c.voices \ gs /\ d.deopped = c.deopped \ gs
    BY DEF ChanOK, Chan
  <2>4. c.exists
    BY <1>2 DEF ChanOK, NoChan
  <2> HIDE DEF d
  <2>5. ChanOK(d, K \ gs)
    BY <2>2, <2>3, <2>4 DEF ChanOK
  <2> QED BY <2>1, <2>5, NoChanOK
<1> QED BY <1>1, <1>2

LEMMA RemoveUsersTS ==
    ASSUME NEW c, NEW K, ChanOK(c, K), NEW gs, RemoveUsers(c, gs).exists
    PROVE  RemoveUsers(c, gs).ts = c.ts
BY DEF RemoveUsers, Sub1FromChannel, NoChan, ChanOK, Chan

LEMMA MergedModeType ==
    ASSUME NEW c \in Chan, NEW m \in SjoinMsg
    PROVE  MergedTS(c, m.ts) \in Nat /\ MergedMode(c, m) \in Mode
<1>1. m.ts \in Nat /\ m.mode \in Mode /\ c.mode \in Mode /\ c.ts \in Nat
  BY DEF SjoinMsg, Chan
<1>2. \A x, y \in Params : Larger(x, y) \in Params
  BY DEF Larger
<1>3. MergedTS(c, m.ts) \in Nat
  BY <1>1 DEF MergedTS
<1>4. MergedMode(c, m) \in Mode
  BY <1>1, <1>2 DEF MergedMode, Mode
<1> QED BY <1>3, <1>4

LEMMA SjoinChanOK ==
    ASSUME NEW c, NEW K \in SUBSET User, ChanOK(c, K), NEW m \in SjoinMsg,
           NEW people \in SUBSET K
    PROVE  ChanOK(SjoinChan(c, m, people), K)
<1> DEFINE d == SjoinChan(c, m, people)
<1>1. c \in Chan /\ MergedTS(c, m.ts) \in Nat /\ MergedMode(c, m) \in Mode
  BY MergedModeType DEF ChanOK
<1>2. m.ops \subseteq User /\ m.voices \subseteq User
  BY DEF SjoinMsg
<1>3. d \in Chan
  BY <1>1, <1>2 DEF SjoinChan, Chan, ChanOK
<1>4. d.exists /\ d.members = c.members \cup people
  BY DEF SjoinChan
<1>5. /\ d.ops \subseteq d.members
      /\ d.voices \subseteq d.members
      /\ d.deopped \subseteq d.members
      /\ d.ops \cap d.deopped = {}
  BY DEF SjoinChan, ChanOK
<1> HIDE DEF d
<1>6. ChanOK(d, K)
  BY <1>3, <1>4, <1>5 DEF ChanOK
<1> QED BY <1>6 DEF d

LEMMA ForwardType ==
    ASSUME NEW c \in Chan, NEW m \in SjoinMsg, NEW people \in SUBSET User
    PROVE  /\ SjoinForward(c, m, people) \in Message
           /\ SjoinForward(c, m, people).type = "SJOIN"
<1>1. MergedTS(c, m.ts) \in Nat /\ MergedMode(c, m) \in Mode
  BY MergedModeType
<1>2. NoMode \in Mode /\ m.zero \in BOOLEAN
  BY DataAssumption DEF NoMode, Mode, SjoinMsg
<1> QED BY <1>1, <1>2 DEF SjoinForward, Sjoin, Message, SjoinMsg, KeepNewModes

LEMMA ApplyChangeOK ==
    ASSUME NEW c, NEW K \in SUBSET User, ChanOK(c, K), NEW ch \in Change,
           c.exists, ch.kind \in {"o", "v"} => ch.who \in c.members
    PROVE  ChanOK(ApplyChange(c, ch), K) /\ ApplyChange(c, ch).ts = c.ts
<1>1. CASE ch.kind = "o"
  BY <1>1 DEF ApplyChange, ChangeChanFlag, Flip, ChanOK, Chan, Change
<1>2. CASE ch.kind = "v"
  BY <1>2 DEF ApplyChange, ChangeChanFlag, Flip, ChanOK, Chan, Change
<1>3. CASE ch.kind = "simple"
  BY <1>3 DEF ApplyChange, ApplySimple, Flip, ChanOK, Chan, Change, Mode
<1>4. CASE ch.kind = "k"
  BY <1>4, DataAssumption DEF ApplyChange, ChanOK, Chan, Change, Mode
<1>5. CASE ch.kind = "l"
  BY <1>5, DataAssumption DEF ApplyChange, ChanOK, Chan, Change, Mode
<1> QED BY <1>1, <1>2, <1>3, <1>4, <1>5 DEF Change

LEMMA SetChannelModeOK ==
    ASSUME NEW c, NEW K \in SUBSET User, ChanOK(c, K), NEW ch \in Change,
           NEW src, NEW remote
    PROVE  /\ ChanOK(SetChannelMode(c, src, remote, ch), K)
           /\ SetChannelMode(c, src, remote, ch).ts = c.ts
<1>1. CASE ModeApplies(c, src, remote, ch)
  <2>1. c.exists /\ (ch.kind \in {"o", "v"} => ch.who \in c.members)
    BY <1>1 DEF ModeApplies, FlagApplies
  <2> QED BY <1>1, <2>1, ApplyChangeOK DEF SetChannelMode
<1>2. CASE ~ModeApplies(c, src, remote, ch) /\ MarksDeopped(c, src, remote, ch)
  <2> DEFINE d == [c EXCEPT !.deopped = @ \cup {ch.who}]
  <2>1. SetChannelMode(c, src, remote, ch) = d
    BY <1>2 DEF SetChannelMode
  <2>2. c.exists /\ ch.who \in c.members \ c.ops
    BY <1>2 DEF MarksDeopped
  <2>3. ChanOK(d, K) /\ d.ts = c.ts
    BY <2>2 DEF ChanOK, Chan
  <2> QED BY <2>1, <2>3
<1>3. CASE ~ModeApplies(c, src, remote, ch) /\ ~MarksDeopped(c, src, remote, ch)
  BY <1>3 DEF SetChannelMode
<1> QED BY <1>1, <1>2, <1>3

LEMMA ModeForwardOK ==
    ASSUME NEW c \in Chan, NEW src \in Source, NEW remote, NEW ch \in Change,
           NEW V
    PROVE  /\ ModeForward(c, src, remote, ch) \in Seq(Message)
           /\ SourcesIn(ModeForward(c, src, remote, ch), V)
<1> DEFINE line(x) == [type |-> "MODE", by |-> src, change |-> x]
           drop == [kind |-> "k", add |-> FALSE, arg |-> c.mode.key]
<1>1. \A x \in Change : line(x) \in Message /\ line(x).type = "MODE"
  BY DEF Message
<1>2. drop \in Change
  BY DEF Change, Chan, Mode
<1>3. \A x \in Change : <<line(x)>> \in Seq(Message) /\ SourcesIn(<<line(x)>>, V)
  BY <1>1, PlainMessages
<1>4. /\ <<line(drop), line(ch)>> \in Seq(Message)
      /\ SourcesIn(<<line(drop), line(ch)>>, V)
  <2>1. Carried(line(drop)) = {} /\ Carried(line(ch)) = {}
    BY DEF Carried
  <2>2. line(drop) \in Message /\ line(ch) \in Message
    BY <1>1, <1>2
  <2> HIDE DEF line, drop
  <2> QED BY <2>1, <2>2 DEF SourcesIn
<1>5. <<>> \in Seq(Message) /\ SourcesIn(<<>>, V)
  BY DEF SourcesIn
<1>6. ModeForward(c, src, remote, ch)
        \in {<<>>, <<line(drop)>>, <<line(ch)>>, <<line(drop), line(ch)>>}
  BY DEF ModeForward
<1> HIDE DEF line, drop
<1> QED BY <1>2, <1>3, <1>4, <1>5, <1>6

LEMMA BurstOK ==
    ASSUME IndInv, NEW s \in Server, NEW t \in Neighbours(s)
    PROVE  /\ BurstTo(s, t) \in Seq(Message)
           /\ SourcesIn(BurstTo(s, t), Via(t, s))
<1> DEFINE c == chan[s]
           nick == [type |-> "NICK", users |-> known[s] \ Via(s, t)]
           sj == Sjoin(c.ts, c.mode, FALSE, c.members, c.ops, c.voices)
<1>1. c \in Chan /\ known[s] \subseteq User
  BY DEF IndInv, ChansOK, KnownOK
<1>2. nick \in Message /\ Carried(nick) \subseteq Via(t, s)
  <2>1. known[s] \ Via(s, t) \subseteq Via(t, s)
    BY <1>1, ViaFacts
  <2> QED BY <1>1, <2>1 DEF Message, Carried
<1>3. sj \in Message /\ sj.type = "SJOIN"
  BY <1>1 DEF Sjoin, Message, SjoinMsg, Chan
<1>4. Carried(sj) = {}
  BY <1>3 DEF Carried
<1>5. BurstTo(s, t) \in {<<nick>>, <<nick>> \o <<sj>>}
  BY DEF BurstTo
<1> HIDE DEF nick, sj
<1>6. <<nick>> \in Seq(Message) /\ SourcesIn(<<nick>>, Via(t, s))
  BY <1>2, OneMessage
<1>7. <<sj>> \in Seq(Message) /\ SourcesIn(<<sj>>, Via(t, s))
  BY <1>3, <1>4, OneMessage
<1>8. <<nick>> \o <<sj>> \in Seq(Message)
      /\ SourcesIn(<<nick>> \o <<sj>>, Via(t, s))
  BY <1>6, <1>7, ConcatSources
<1> QED BY <1>5, <1>6, <1>8

-----------------------------------------------------------------------------
(* Every step preserves the invariant, and no step raises a timestamp.      *)

\* A step that changes s's channel, keeps its timestamp or frees it, and
\* leaves the clients alone.
LEMMA ChanStep ==
    ASSUME IndInv, NEW s \in Server, NEW d, ChanOK(d, known[s]),
           chan[s].exists /\ chan[s].members # {} /\ d.exists
               => d.ts <= chan[s].ts,
           chan' = [chan EXCEPT ![s] = d], UNCHANGED known
    PROVE  ChansOK' /\ TSStep
<1>1. chan \in [Server -> Chan] /\ d \in Chan
  BY DEF IndInv, ChansOK, ChanOK
<1>2. \A x \in Server : chan'[x] = IF x = s THEN d ELSE chan[x]
  BY <1>1
<1>3. \A x \in Server : ChanOK(chan'[x], known'[x])
  BY <1>2 DEF IndInv, ChansOK
<1>4. TSStep
  <2>1. \A x \in Server : chan[x].ts \in Nat
    BY <1>1 DEF Chan
  <2> QED BY <1>2, <2>1 DEF TSStep
<1> QED BY <1>1, <1>3, <1>4 DEF ChansOK

\* A step that leaves all channels and clients alone.
LEMMA ChanStutter ==
    ASSUME IndInv, UNCHANGED <<chan, known>>
    PROVE  ChansOK' /\ TSStep
<1>1. \A x \in Server : chan[x].ts \in Nat
  BY DEF IndInv, ChansOK, Chan
<1> QED BY <1>1 DEF IndInv, ChansOK, TSStep

\* Removing clients from s's channel.
LEMMA RemoveStep ==
    ASSUME IndInv, NEW s \in Server, NEW gs,
           chan' = [chan EXCEPT ![s] = RemoveUsers(@, gs)],
           known' = known \/ known' = [known EXCEPT ![s] = @ \ gs]
    PROVE  ChansOK' /\ TSStep
<1> DEFINE d == RemoveUsers(chan[s], gs)
<1>1. ChanOK(chan[s], known[s]) /\ chan \in [Server -> Chan]
  BY DEF IndInv, ChansOK
<1>2. ChanOK(d, known[s] \ gs)
  BY <1>1, RemoveUsersOK
<1>3. d.exists => d.ts = chan[s].ts
  BY <1>1, RemoveUsersTS
<1>4. d \in Chan
  BY <1>2 DEF ChanOK
<1> HIDE DEF d
<1>5. \A x \in Server : chan'[x] = IF x = s THEN d ELSE chan[x]
  BY <1>1 DEF d
<1>6. \A x \in Server : ChanOK(chan'[x], known'[x])
  <2>1. ChanOK(d, known[s])
    BY <1>2 DEF ChanOK
  <2>2. known'[s] \in {known[s], known[s] \ gs}
        /\ \A x \in Server \ {s} : known'[x] = known[x]
    BY DEF IndInv, KnownOK
  <2> QED BY <1>1, <1>2, <1>5, <2>1, <2>2 DEF IndInv, ChansOK
<1>7. chan' \in [Server -> Chan]
  BY <1>1, <1>4 DEF d
<1>8. TSStep
  <2>1. \A x \in Server : chan[x].ts \in Nat
    BY <1>1 DEF Chan
  <2> QED BY <1>3, <1>5, <2>1 DEF TSStep
<1> QED BY <1>6, <1>7, <1>8 DEF ChansOK

\* Forgetting clients that are not s's own, or that have gone.
LEMMA ForgetKnown ==
    ASSUME IndInv, NEW s \in Server, NEW gs,
           known' = [known EXCEPT ![s] = @ \ gs],
           linked' = linked, gone' \subseteq User, gone \subseteq gone',
           Own(s) \cap gs \subseteq gone'
    PROVE  KnownOK'
<1>1. known' \in [Server -> SUBSET User]
      /\ \A x \in Server : known'[x] = IF x = s THEN known[s] \ gs ELSE known[x]
  BY DEF IndInv, KnownOK
<1>2. \A x \in Server : known'[x] \subseteq Reach(x, linked'[x])
  BY <1>1 DEF IndInv, KnownOK
<1>3. \A x \in Server : Own(x) \ known'[x] \subseteq gone'
  BY <1>1 DEF IndInv, KnownOK
<1> QED BY <1>1, <1>2, <1>3 DEF KnownOK

\* exit_client of a link.
LEMMA CloseLinkStep ==
    ASSUME IndInv, NEW s \in Server, NEW t \in linked[s], NEW w, WireOK(w),
           CloseLink(s, t, w)
    PROVE  ChansOK' /\ KnownOK' /\ LinkOK' /\ WireOK(wire') /\ TSStep
<1>1. t \in Neighbours(s) /\ LinkOK
  BY DEF IndInv, LinkOK
<1>2. ChansOK' /\ TSStep
  BY RemoveStep DEF CloseLink, Forget
<1>3. LinkOK'
  BY <1>1 DEF CloseLink, LinkOK
<1>4. KnownOK'
  <2>1. known' \in [Server -> SUBSET User]
        /\ \A x \in Server : known'[x] = IF x = s THEN known[s] \ Via(s, t)
                                                  ELSE known[x]
    BY DEF IndInv, KnownOK, CloseLink, Forget
  <2>2. \A x \in Server : linked'[x] = IF x = s THEN linked[s] \ {t}
                                                ELSE linked[x]
    BY <1>1 DEF CloseLink, LinkOK
  <2>3. known[s] \ Via(s, t) \subseteq Reach(s, linked[s] \ {t})
    BY DEF IndInv, KnownOK, Reach
  <2>4. \A x \in Server : known'[x] \subseteq Reach(x, linked'[x])
    BY <2>1, <2>2, <2>3 DEF IndInv, KnownOK
  <2>5. Own(s) \cap Via(s, t) = {} /\ gone' = gone
    BY <1>1, ViaFacts DEF CloseLink
  <2>6. \A x \in Server : Own(x) \ known'[x] \subseteq gone'
    BY <2>1, <2>5 DEF IndInv, KnownOK
  <2> QED BY <2>1, <2>4, <2>5, <2>6 DEF IndInv, KnownOK
<1>5. WireOK(wire')
  <2> DEFINE m == [type |-> "SQUIT", users |-> Via(s, t)]
  <2>1. m \in Message /\ Carried(m) = Via(s, t)
    BY <1>1, ViaFacts DEF Message, Carried
  <2>2. \A x \in linked[s] \ {t} : Via(s, t) \subseteq Via(x, s)
    BY <1>1, ViaFacts DEF LinkOK
  <2> HIDE DEF m
  <2>3. <<m>> \in Seq(Message)
        /\ \A x \in linked[s] \ {t} : SourcesIn(<<m>>, Via(x, s))
    BY <2>1, <2>2, OneMessage
  <2>4. wire' = SendButOne(w, s, t, <<m>>)
    BY DEF CloseLink, m
  <2> QED BY <1>1, <2>3, <2>4, WireSend
<1> QED BY <1>2, <1>3, <1>4, <1>5

\* What a step from a state of the invariant must establish.
Good == ChansOK' /\ KnownOK' /\ LinkOK' /\ WireOK(wire') /\ TSStep

LEMMA SameClients ==
    ASSUME IndInv, UNCHANGED <<known, linked, gone>>
    PROVE  KnownOK' /\ LinkOK'
BY DEF IndInv, KnownOK, LinkOK

LEMMA ForwardOne ==
    ASSUME IndInv, NEW s \in Server, NEW t, NEW w, WireOK(w),
           NEW m \in Message, m.type \notin {"NICK", "SQUIT", "QUIT"}
    PROVE  WireOK(SendButOne(w, s, t, <<m>>))
BY PlainMessages, WireSend DEF IndInv

\* What came from behind t is passed on away from t.
LEMMA ForwardCarried ==
    ASSUME IndInv, NEW s \in Server, NEW t \in linked[s], NEW w, WireOK(w),
           NEW m \in Message, Carried(m) \subseteq Via(s, t)
    PROVE  WireOK(SendButOne(w, s, t, <<m>>))
<1>1. t \in Neighbours(s) /\ linked[s] \subseteq Neighbours(s)
  BY DEF IndInv, LinkOK
<1>2. \A x \in linked[s] \ {t} : Carried(m) \subseteq Via(x, s)
  BY <1>1, ViaFacts
<1> QED BY <1>2, OneMessage, WireSend DEF IndInv

LEMMA UnknownPrefixStep ==
    ASSUME IndInv, NEW s \in Server, NEW t \in linked[s], NEW w, WireOK(w),
           NEW u \in User, UnknownPrefix(s, t, u, w)
    PROVE  Good
<1> DEFINE m == [type |-> "KILL", who |-> u]
<1>1. t \in Neighbours(s) /\ t \in Server
  BY DEF IndInv, LinkOK
<1>2. m \in Message /\ m.type = "KILL"
  BY DEF Message
<1>3. wire' = [w EXCEPT ![s][t] = Append(@, m)]
  BY DEF UnknownPrefix
<1> HIDE DEF m
<1>4. w[s][t] \in Seq(Message) /\ SourcesIn(w[s][t], Via(t, s))
  BY <1>1 DEF WireOK
<1>5. Append(w[s][t], m) = w[s][t] \o <<m>>
  BY <1>2, <1>4
<1>6. <<m>> \in Seq(Message) /\ SourcesIn(<<m>>, Via(t, s))
  BY <1>2, PlainMessages
<1>7. w[s][t] \o <<m>> \in Seq(Message)
      /\ SourcesIn(w[s][t] \o <<m>>, Via(t, s))
  BY <1>4, <1>6, ConcatSources
<1>8. WireOK([w EXCEPT ![s][t] = w[s][t] \o <<m>>])
  BY <1>1, <1>7, WireSet
<1>9. WireOK(wire')
  BY <1>3, <1>5, <1>8
<1> QED BY <1>9, ChanStutter, SameClients DEF UnknownPrefix, Good

LEMMA RecvSjoinStep ==
    ASSUME IndInv, NEW s \in Server, NEW t \in linked[s], NEW w, WireOK(w),
           NEW m \in SjoinMsg, RecvSjoin(s, t, m, w)
    PROVE  Good
<1> DEFINE people == m.nicks \cap known[s] \cap Via(s, t)
           d == SjoinChan(chan[s], m, people)
           f == SjoinForward(chan[s], m, people)
<1>1. ChanOK(chan[s], known[s]) /\ known[s] \subseteq User /\ chan[s] \in Chan
  BY DEF IndInv, ChansOK, KnownOK
<1>2. people \subseteq known[s] /\ people \subseteq User
  BY <1>1
<1>3. ChanOK(d, known[s])
  BY <1>1, <1>2, SjoinChanOK
<1>4. chan[s].exists /\ chan[s].members # {} => d.ts <= chan[s].ts
  <2>1. d.ts = MergedTS(chan[s], m.ts)
    BY DEF SjoinChan
  <2>2. m.ts \in Nat /\ chan[s].ts \in Nat
    BY <1>1 DEF SjoinMsg, Chan
  <2> QED BY <2>1, <2>2 DEF MergedTS, KeepNewModes
<1>5. chan' = [chan EXCEPT ![s] = d] /\ UNCHANGED <<known, linked, gone>>
  BY DEF RecvSjoin
<1>6. f \in Message /\ f.type = "SJOIN"
  BY <1>1, <1>2, ForwardType
<1>7. wire' = w \/ wire' = SendButOne(w, s, t, <<f>>)
  BY DEF RecvSjoin
<1> HIDE DEF d, f, people
<1>8. WireOK(wire')
  BY <1>6, <1>7, ForwardOne
<1>9. ChansOK' /\ TSStep
  BY <1>3, <1>4, <1>5, ChanStep
<1> QED BY <1>5, <1>8, <1>9, SameClients DEF Good

LEMMA RecvNickStep ==
    ASSUME IndInv, NEW s \in Server, NEW t \in linked[s], NEW w, WireOK(w),
           NEW m \in Message, m.type = "NICK", Carried(m) \subseteq Via(s, t),
           RecvNick(s, t, m, w)
    PROVE  Good
<1>1. m.users \subseteq Via(s, t) /\ m.users \subseteq User
  BY MessageFields DEF Carried
<1>2. WireOK(wire')
  BY ForwardCarried DEF RecvNick
<1>3. /\ known' \in [Server -> SUBSET User]
      /\ \A x \in Server : known'[x] = IF x = s THEN known[s] \cup m.users
                                                ELSE known[x]
  BY <1>1 DEF RecvNick, IndInv, KnownOK
<1>4. known[s] \cup m.users \subseteq Reach(s, linked[s])
  BY <1>1 DEF IndInv, KnownOK, Reach
<1>5. KnownOK' /\ LinkOK'
  BY <1>3, <1>4 DEF RecvNick, IndInv, KnownOK, LinkOK
<1>6. ChansOK'
  <2>1. \A x \in Server : ChanOK(chan[x], known[x])
    BY DEF IndInv, ChansOK
  <2>2. \A x \in Server : known[x] \subseteq known'[x]
    BY <1>3
  <2>3. \A x \in Server : ChanOK(chan[x], known'[x])
    BY <2>1, <2>2 DEF ChanOK
  <2> QED BY <2>3 DEF IndInv, ChansOK, RecvNick
<1>7. TSStep
  <2>1. \A x \in Server : chan[x].ts \in Nat
    BY DEF IndInv, ChansOK, Chan
  <2> QED BY <2>1 DEF TSStep, RecvNick
<1> QED BY <1>2, <1>5, <1>6, <1>7 DEF Good

LEMMA RecvPartStep ==
    ASSUME IndInv, NEW s \in Server, NEW t \in linked[s], NEW w, WireOK(w),
           NEW m \in Message, m.type = "PART", RecvPart(s, t, m, w)
    PROVE  Good
<1>1. CASE UnknownPrefix(s, t, m.who, w)
  BY <1>1, UnknownPrefixStep, MessageFields
<1>2. CASE ~UnknownPrefix(s, t, m.who, w)
  <2>1. /\ chan' = [chan EXCEPT ![s] = RemoveUsers(@, {m.who})]
        /\ wire' = w \/ wire' = SendButOne(w, s, t, <<m>>)
        /\ UNCHANGED <<known, linked, gone>>
    BY <1>2 DEF RecvPart
  <2>2. WireOK(wire')
    BY <2>1, ForwardOne
  <2>3. ChansOK' /\ TSStep
    BY <2>1, RemoveStep
  <2> QED BY <2>1, <2>2, <2>3, SameClients DEF Good
<1> QED BY <1>1, <1>2

LEMMA RecvKickStep ==
    ASSUME IndInv, NEW s \in Server, NEW t \in linked[s], NEW w, WireOK(w),
           NEW m \in Message, m.type = "KICK", RecvKick(s, t, m, w)
    PROVE  Good
<1>1. CASE UnknownPrefix(s, t, m.by, w)
  BY <1>1, UnknownPrefixStep, MessageFields
<1>2. CASE ~UnknownPrefix(s, t, m.by, w)
  <2>1. /\ \/ chan' = [chan EXCEPT ![s] = RemoveUsers(@, {m.who})]
           \/ chan' = chan
        /\ wire' = w \/ wire' = SendButOne(w, s, t, <<m>>)
        /\ UNCHANGED <<known, linked, gone>>
    BY <1>2 DEF RecvKick
  <2>2. WireOK(wire')
    BY <2>1, ForwardOne
  <2>3. ChansOK' /\ TSStep
    BY <2>1, RemoveStep, ChanStutter
  <2> QED BY <2>1, <2>2, <2>3, SameClients DEF Good
<1> QED BY <1>1, <1>2

\* set_channel_mode and what it sends, for a line from t or from a client.
LEMMA ModeStep ==
    ASSUME IndInv, NEW s \in Server, NEW t, NEW w, WireOK(w),
           NEW src \in Source, NEW remote, NEW ch \in Change,
           chan' = [chan EXCEPT ![s] = SetChannelMode(@, src, remote, ch)],
           wire' = SendButOne(w, s, t, ModeForward(chan[s], src, remote, ch)),
           UNCHANGED <<known, linked, gone>>
    PROVE  Good
<1> DEFINE d == SetChannelMode(chan[s], src, remote, ch)
           f == ModeForward(chan[s], src, remote, ch)
<1>1. ChanOK(chan[s], known[s]) /\ known[s] \subseteq User /\ chan[s] \in Chan
  BY DEF IndInv, ChansOK, KnownOK
<1>2. ChanOK(d, known[s]) /\ d.ts = chan[s].ts
  BY <1>1, SetChannelModeOK
<1>3. f \in Seq(Message) /\ \A V : SourcesIn(f, V)
  BY <1>1, ModeForwardOK
<1>4. chan' = [chan EXCEPT ![s] = d] /\ wire' = SendButOne(w, s, t, f)
  OBVIOUS
<1> HIDE DEF d, f
<1>5. d.ts <= chan[s].ts /\ UNCHANGED known
  BY <1>1, <1>2 DEF Chan
<1>6. ChansOK' /\ TSStep
  BY <1>2, <1>4, <1>5, ChanStep
<1>7. WireOK(wire')
  BY <1>3, <1>4, WireSend DEF IndInv
<1> QED BY <1>6, <1>7, SameClients DEF Good

LEMMA RecvModeStep ==
    ASSUME IndInv, NEW s \in Server, NEW t \in linked[s], NEW w, WireOK(w),
           NEW m \in Message, m.type = "MODE", RecvMode(s, t, m, w)
    PROVE  Good
<1>0. m.by \in Source /\ m.change \in Change
  BY MessageFields
<1>1. CASE m.by # NoUser /\ UnknownPrefix(s, t, m.by, w)
  BY <1>0, <1>1, UnknownPrefixStep DEF Source
<1>2. CASE ~(m.by # NoUser /\ UnknownPrefix(s, t, m.by, w))
  <2>1. /\ chan' = [chan EXCEPT ![s] =
                       SetChannelMode(@, m.by, TRUE, m.change)]
        /\ wire' = SendButOne(w, s, t,
                       ModeForward(chan[s], m.by, TRUE, m.change))
        /\ UNCHANGED <<known, linked, gone>>
    BY <1>2 DEF RecvMode
  <2> QED BY <1>0, <2>1, ModeStep
<1> QED BY <1>1, <1>2

LEMMA RecvQuitStep ==
    ASSUME IndInv, NEW s \in Server, NEW t \in linked[s], NEW w, WireOK(w),
           NEW m \in Message, m.type = "QUIT", Carried(m) \subseteq Via(s, t),
           RecvQuit(s, t, m, w)
    PROVE  Good
<1>1. CASE UnknownPrefix(s, t, m.who, w)
  BY <1>1, UnknownPrefixStep, MessageFields
<1>2. CASE ~UnknownPrefix(s, t, m.who, w)
  <2>1. /\ Forget(s, {m.who})
        /\ wire' = SendButOne(w, s, t, <<m>>)
        /\ UNCHANGED <<linked, gone>>
    BY <1>2 DEF RecvQuit
  <2>2. t \in Neighbours(s)
    BY DEF IndInv, LinkOK
  <2>3. Own(s) \cap {m.who} = {}
    BY <2>2, ViaFacts DEF Carried
  <2>4. ChansOK' /\ TSStep
    BY <2>1, RemoveStep DEF Forget
  <2>5. KnownOK' /\ LinkOK'
    BY <2>1, <2>3, ForgetKnown DEF Forget, IndInv, KnownOK, LinkOK
  <2>6. WireOK(wire')
    BY <2>1, ForwardCarried
  <2> QED BY <2>4, <2>5, <2>6 DEF Good
<1> QED BY <1>1, <1>2

LEMMA RecvKillStep ==
    ASSUME IndInv, NEW s \in Server, NEW t \in linked[s], NEW w, WireOK(w),
           NEW m \in Message, m.type = "KILL", RecvKill(s, t, m, w)
    PROVE  Good
<1>0. m.who \in User
  BY MessageFields
<1>1. CASE m.who \notin known[s]
  BY <1>1, ChanStutter, SameClients DEF RecvKill, Good
<1>2. CASE m.who \in known[s]
  <2>1. /\ Forget(s, {m.who})
        /\ wire' = SendButOne(w, s, t, <<m>>)
        /\ gone' = IF Home[m.who] = s THEN gone \cup {m.who} ELSE gone
        /\ linked' = linked
    BY <1>2 DEF RecvKill
  <2>2. /\ gone' \subseteq User /\ gone \subseteq gone'
        /\ Own(s) \cap {m.who} \subseteq gone'
    BY <1>0, <2>1 DEF IndInv, KnownOK, Own
  <2>3. ChansOK' /\ TSStep
    BY <2>1, RemoveStep DEF Forget
  <2>4. KnownOK' /\ LinkOK'
    BY <2>1, <2>2, ForgetKnown DEF Forget, IndInv, LinkOK
  <2>5. WireOK(wire')
    BY <2>1, ForwardOne
  <2> QED BY <2>3, <2>4, <2>5 DEF Good
<1> QED BY <1>1, <1>2

LEMMA RecvSquitStep ==
    ASSUME IndInv, NEW s \in Server, NEW t \in linked[s], NEW w, WireOK(w),
           NEW m \in Message, m.type = "SQUIT", Carried(m) \subseteq Via(s, t),
           RecvSquit(s, t, m, w)
    PROVE  Good
<1>1. t \in Neighbours(s)
  BY DEF IndInv, LinkOK
<1>2. Own(s) \cap m.users = {}
  BY <1>1, ViaFacts DEF Carried
<1>3. ChansOK' /\ TSStep
  BY RemoveStep DEF RecvSquit, Forget
<1>4. KnownOK' /\ LinkOK'
  BY <1>2, ForgetKnown DEF RecvSquit, Forget, IndInv, KnownOK, LinkOK
<1>5. WireOK(wire')
  BY ForwardCarried DEF RecvSquit
<1> QED BY <1>3, <1>4, <1>5 DEF Good

LEMMA RecvEofStep ==
    ASSUME IndInv, NEW s \in Server, NEW t \in linked[s], NEW w, WireOK(w),
           NEW m, RecvEof(s, t, m, w)
    PROVE  Good
<1>1. t \in Server /\ <<>> \in Seq(Message)
  BY DEF IndInv, LinkOK
<1>2. WireOK([w EXCEPT ![s][t] = <<>>])
  BY <1>1, WireSet
<1> QED BY <1>2, CloseLinkStep DEF RecvEof, Good

\* One more link makes room for more clients, and loses none.
LEMMA MoreLinks ==
    ASSUME IndInv, NEW s \in Server, NEW t \in Neighbours(s),
           linked' = [linked EXCEPT ![s] = @ \cup {t}],
           UNCHANGED <<chan, known, gone>>
    PROVE  ChansOK' /\ KnownOK' /\ LinkOK' /\ TSStep
<1>1. t \in Server
  BY DEF Neighbours
<1>2. LinkOK'
  BY <1>1 DEF IndInv, LinkOK
<1>3. \A x \in Server : linked[x] \subseteq linked'[x]
  BY DEF IndInv, LinkOK
<1>4. \A x \in Server : Reach(x, linked[x]) \subseteq Reach(x, linked'[x])
  BY <1>3 DEF Reach
<1>5. KnownOK'
  BY <1>4 DEF IndInv, KnownOK
<1> QED BY <1>2, <1>5, ChanStutter

LEMMA RecvServerStep ==
    ASSUME IndInv, NEW s \in Server, NEW t \in Neighbours(s), NEW w, WireOK(w),
           NEW m, RecvServer(s, t, m, w)
    PROVE  Good
<1>1. t \in Server
  BY DEF Neighbours
<1>2. w[s][t] \in Seq(Message) /\ SourcesIn(w[s][t], Via(t, s))
  BY <1>1 DEF WireOK
<1>3. /\ w[s][t] \o BurstTo(s, t) \in Seq(Message)
      /\ SourcesIn(w[s][t] \o BurstTo(s, t), Via(t, s))
  BY <1>2, BurstOK, ConcatSources
<1>4. WireOK([w EXCEPT ![s][t] = w[s][t] \o BurstTo(s, t)])
  BY <1>1, <1>3, WireSet
<1>5. WireOK(wire')
  BY <1>4 DEF RecvServer
<1> QED BY <1>5, MoreLinks DEF RecvServer, Good

LEMMA ReceiveStep ==
    ASSUME IndInv, NEW s \in Server, NEW t \in Server, Receive(s, t)
    PROVE  Good
<1> DEFINE m == Head(wire[t][s])
           w == [wire EXCEPT ![t][s] = Tail(@)]
<1>1. /\ WireOK(w) /\ t \in Neighbours(s)
      /\ m \in Message /\ Carried(m) \subseteq Via(s, t)
  BY WireTail DEF Receive, IndInv
<1>2. \/ m.type = "SERVER" /\ RecvServer(s, t, m, w)
      \/ /\ t \in linked[s]
         /\ \/ m.type = "SJOIN" /\ RecvSjoin(s, t, m, w)
            \/ m.type = "NICK" /\ RecvNick(s, t, m, w)
            \/ m.type = "PART" /\ RecvPart(s, t, m, w)
            \/ m.type = "KICK" /\ RecvKick(s, t, m, w)
            \/ m.type = "MODE" /\ RecvMode(s, t, m, w)
            \/ m.type = "QUIT" /\ RecvQuit(s, t, m, w)
            \/ m.type = "KILL" /\ RecvKill(s, t, m, w)
            \/ m.type = "SQUIT" /\ RecvSquit(s, t, m, w)
            \/ m.type = "EOF" /\ RecvEof(s, t, m, w)
  BY DEF Receive
<1> HIDE DEF m, w
<1>3. CASE m.type = "SERVER" /\ RecvServer(s, t, m, w)
  BY <1>1, <1>3, RecvServerStep
<1>4. CASE t \in linked[s] /\ m.type = "SJOIN" /\ RecvSjoin(s, t, m, w)
  BY <1>1, <1>4, RecvSjoinStep, MessageFields
<1>5. CASE t \in linked[s] /\ m.type = "NICK" /\ RecvNick(s, t, m, w)
  BY <1>1, <1>5, RecvNickStep
<1>6. CASE t \in linked[s] /\ m.type = "PART" /\ RecvPart(s, t, m, w)
  BY <1>1, <1>6, RecvPartStep
<1>7. CASE t \in linked[s] /\ m.type = "KICK" /\ RecvKick(s, t, m, w)
  BY <1>1, <1>7, RecvKickStep
<1>8. CASE t \in linked[s] /\ m.type = "MODE" /\ RecvMode(s, t, m, w)
  BY <1>1, <1>8, RecvModeStep
<1>9. CASE t \in linked[s] /\ m.type = "QUIT" /\ RecvQuit(s, t, m, w)
  BY <1>1, <1>9, RecvQuitStep
<1>10. CASE t \in linked[s] /\ m.type = "KILL" /\ RecvKill(s, t, m, w)
  BY <1>1, <1>10, RecvKillStep
<1>11. CASE t \in linked[s] /\ m.type = "SQUIT" /\ RecvSquit(s, t, m, w)
  BY <1>1, <1>11, RecvSquitStep
<1>12. CASE t \in linked[s] /\ m.type = "EOF" /\ RecvEof(s, t, m, w)
  BY <1>1, <1>12, RecvEofStep
<1> QED BY <1>2, <1>3, <1>4, <1>5, <1>6, <1>7, <1>8, <1>9, <1>10, <1>11, <1>12

\* What a client's join makes of the channel.
LEMMA JoinStep ==
    ASSUME IndInv, NEW s \in Server, NEW u \in User, NEW now \in Clock,
           Join(s, u, now)
    PROVE  Good
<1> DEFINE c == chan[s]
           created == [NewChan(now) EXCEPT !.mode.simple = CreateModes,
                                           !.members = {u}, !.ops = {u}]
           joined == [c EXCEPT !.members = @ \cup {u}]
           first == Sjoin(now, NoMode, FALSE, {u}, {u}, {})
           modes == [type |-> "MODE", by |-> NoUser,
                     change |-> [kind |-> "simple", add |-> TRUE,
                                 modes |-> CreateModes]]
           next == Sjoin(c.ts, NoMode, FALSE, {u}, {}, {})
<1>1. /\ ChanOK(c, known[s]) /\ c \in Chan /\ u \in known[s]
      /\ chan \in [Server -> Chan] /\ WireOK(wire)
  BY DEF IndInv, ChansOK, Join, Local
<1>2. UNCHANGED <<known, linked, gone>> /\ UNCHANGED known
  BY DEF Join
<1>3. NoMode \in Mode /\ now \in Nat /\ c.ts \in Nat
  BY <1>1, DataAssumption DEF NoMode, Mode, Chan
<1>4. CASE /\ ~c.exists /\ chan' = [chan EXCEPT ![s] = created]
           /\ wire' = SendAll(wire, s, <<first, modes>>)
  <2>1. /\ created.members = {u} /\ created.ops = {u} /\ created.voices = {}
        /\ created.deopped = {} /\ created.exists
    BY DEF NewChan, NoChan
  <2>2. created \in Chan
    BY <1>3, DataAssumption DEF NewChan, NoChan, NoMode, Chan, Mode
  <2>3. ChanOK(created, known[s])
    BY <1>1, <2>1, <2>2 DEF ChanOK
  <2>4. first \in Message /\ modes \in Message
    BY <1>3, DataAssumption DEF Sjoin, SjoinMsg, Message, Source, Change
  <2>5. Carried(first) = {} /\ Carried(modes) = {}
    BY DEF Carried, Sjoin
  <2> HIDE DEF created, first, modes
  <2>6. <<first, modes>> \in Seq(Message)
        /\ \A V : SourcesIn(<<first, modes>>, V)
    BY <2>4, <2>5 DEF SourcesIn
  <2>7. WireOK(wire')
    BY <1>1, <1>4, <2>6, WireSend DEF SendAll, IndInv
  <2>8. ChansOK' /\ TSStep
    BY <1>2, <1>4, <2>3, ChanStep
  <2> QED BY <1>2, <2>7, <2>8, SameClients DEF Good
<1>5. CASE /\ c.exists /\ chan' = [chan EXCEPT ![s].members = @ \cup {u}]
           /\ wire' = SendAll(wire, s, <<next>>)
  <2>1. chan' = [chan EXCEPT ![s] = joined]
    BY <1>1, <1>5
  <2>2. ChanOK(joined, known[s]) /\ joined.ts <= chan[s].ts
    BY <1>1, <1>3, <1>5 DEF ChanOK, Chan
  <2>3. next \in Message /\ next.type = "SJOIN"
    BY <1>3 DEF Sjoin, SjoinMsg, Message
  <2> HIDE DEF joined, next
  <2>4. WireOK(wire')
    BY <1>1, <1>5, <2>3, ForwardOne DEF SendAll
  <2>5. ChansOK' /\ TSStep
    BY <1>2, <2>1, <2>2, ChanStep
  <2> QED BY <1>2, <2>4, <2>5, SameClients DEF Good
<1> QED BY <1>4, <1>5 DEF Join

LEMMA PartStep ==
    ASSUME IndInv, NEW s \in Server, NEW u \in User, Part(s, u)
    PROVE  Good
<1> DEFINE m == [type |-> "PART", who |-> u]
<1>1. m \in Message /\ m.type = "PART" /\ wire' = SendAll(wire, s, <<m>>)
  BY DEF Message, Part
<1> HIDE DEF m
<1>2. WireOK(wire')
  BY <1>1, ForwardOne DEF SendAll, IndInv
<1> QED BY <1>2, RemoveStep, SameClients DEF Part, Good

LEMMA KickStep ==
    ASSUME IndInv, NEW s \in Server, NEW u \in User, NEW who \in User,
           Kick(s, u, who)
    PROVE  Good
<1> DEFINE m == [type |-> "KICK", by |-> u, who |-> who]
<1>1. m \in Message /\ m.type = "KICK" /\ wire' = SendAll(wire, s, <<m>>)
  BY DEF Message, Kick
<1> HIDE DEF m
<1>2. WireOK(wire')
  BY <1>1, ForwardOne DEF SendAll, IndInv
<1> QED BY <1>2, RemoveStep, SameClients DEF Kick, Good

LEMMA QuitStep ==
    ASSUME IndInv, NEW s \in Server, NEW u \in User, Quit(s, u)
    PROVE  Good
<1> DEFINE m == [type |-> "QUIT", who |-> u]
<1>1. m \in Message /\ Carried(m) = {u} /\ wire' = SendAll(wire, s, <<m>>)
  BY DEF Message, Carried, Quit
<1> HIDE DEF m
<1>2. \A x \in linked[s] : u \in Via(x, s)
  <2>1. u \in Own(s)
    BY DEF Quit, Local, Own
  <2> QED BY <2>1, ViaFacts DEF IndInv, LinkOK
<1>3. <<m>> \in Seq(Message) /\ \A x \in linked[s] : SourcesIn(<<m>>, Via(x, s))
  BY <1>1, <1>2, OneMessage
<1>4. WireOK(wire')
  BY <1>1, <1>3, WireSend DEF SendAll, IndInv
<1>5. ChansOK' /\ TSStep
  BY RemoveStep DEF Quit, Forget
<1>6. gone' \subseteq User /\ gone \subseteq gone' /\ Own(s) \cap {u} \subseteq gone'
  BY DEF Quit, IndInv, KnownOK
<1>7. KnownOK' /\ LinkOK'
  BY <1>6, ForgetKnown DEF Quit, Forget, IndInv, LinkOK
<1> QED BY <1>4, <1>5, <1>7 DEF Good

LEMMA KillStep ==
    ASSUME IndInv, NEW s \in Server, NEW u \in User, Kill(s, u)
    PROVE  Good
<1> DEFINE m == [type |-> "KILL", who |-> u]
<1>1. m \in Message /\ m.type = "KILL" /\ wire' = SendAll(wire, s, <<m>>)
  BY DEF Message, Kill
<1> HIDE DEF m
<1>2. WireOK(wire')
  BY <1>1, ForwardOne DEF SendAll, IndInv
<1>3. ChansOK' /\ TSStep
  BY RemoveStep DEF Kill, Forget
<1>4. Own(s) \cap {u} = {} /\ gone' = gone
  BY DEF Kill, Own
<1>5. KnownOK' /\ LinkOK'
  BY <1>4, ForgetKnown DEF Kill, Forget, IndInv, KnownOK, LinkOK
<1> QED BY <1>2, <1>3, <1>5 DEF Good

LEMMA LinkStep ==
    ASSUME IndInv, NEW s \in Server, NEW t \in Server, Link(s, t)
    PROVE  Good
<1> DEFINE m == [type |-> "SERVER"]
<1>1. t \in Neighbours(s) /\ m \in Message /\ m.type = "SERVER"
  BY DEF Link, Message
<1>2. wire' = [wire EXCEPT ![s][t] = <<m>> \o BurstTo(s, t)]
  BY DEF Link
<1> HIDE DEF m
<1>3. <<m>> \in Seq(Message) /\ SourcesIn(<<m>>, Via(t, s))
  BY <1>1, PlainMessages
<1>4. /\ <<m>> \o BurstTo(s, t) \in Seq(Message)
      /\ SourcesIn(<<m>> \o BurstTo(s, t), Via(t, s))
  BY <1>1, <1>3, BurstOK, ConcatSources
<1>5. WireOK(wire')
  BY <1>1, <1>2, <1>4, WireSet DEF IndInv
<1> QED BY <1>1, <1>5, MoreLinks DEF Link, Good

LEMMA SplitStep ==
    ASSUME IndInv, NEW s \in Server, NEW t \in Server, Split(s, t)
    PROVE  Good
<1> DEFINE m == [type |-> "EOF"]
           v == [wire EXCEPT ![t][s] = <<>>]
<1>1. t \in linked[s] /\ t \in Neighbours(s) /\ s # t
  BY ViaFacts DEF Split, IndInv, LinkOK
<1>2. m \in Message /\ m.type = "EOF"
  BY DEF Message
<1>3. PICK q \in {<<>>, Append(wire[s][t], m)} :
          CloseLink(s, t, [wire EXCEPT ![t][s] = <<>>, ![s][t] = q])
  BY DEF Split
<1>4. [wire EXCEPT ![t][s] = <<>>, ![s][t] = q] = [v EXCEPT ![s][t] = q]
  BY DEF v
<1>5. WireOK(v)
  <2>1. <<>> \in Seq(Message)
    OBVIOUS
  <2> QED BY <2>1, WireSet DEF IndInv
<1>6. wire[s][t] \in Seq(Message) /\ SourcesIn(wire[s][t], Via(t, s))
  BY DEF IndInv, WireOK
<1> HIDE DEF m, v
<1>7. Append(wire[s][t], m) = wire[s][t] \o <<m>>
  BY <1>2, <1>6
<1>8. <<m>> \in Seq(Message) /\ SourcesIn(<<m>>, Via(t, s))
  BY <1>2, PlainMessages
<1>9. /\ wire[s][t] \o <<m>> \in Seq(Message)
      /\ SourcesIn(wire[s][t] \o <<m>>, Via(t, s))
  BY <1>6, <1>8, ConcatSources
<1>10. q \in Seq(Message) /\ (q = <<>> \/ SourcesIn(q, Via(t, s)))
  <2>1. CASE q = <<>>
    BY <2>1
  <2>2. CASE q = wire[s][t] \o <<m>>
    BY <1>9, <2>2
  <2> QED BY <1>3, <1>7, <2>1, <2>2
<1>11. WireOK([v EXCEPT ![s][t] = q])
  BY <1>1, <1>5, <1>10, WireSet
<1>12. CloseLink(s, t, [v EXCEPT ![s][t] = q])
  BY <1>3, <1>4
<1> QED BY <1>1, <1>11, <1>12, CloseLinkStep DEF Good

LEMMA RehashStep ==
    ASSUME IndInv, NEW s \in Server, NEW on \in BOOLEAN, NEW now \in Clock,
           Rehash(s, on, now)
    PROVE  Good
<1> DEFINE c == chan[s]
           d == IF c.exists THEN [c EXCEPT !.juped = on]
                ELSE [NewChan(now) EXCEPT !.juped = TRUE]
<1>1. ChanOK(c, known[s]) /\ c \in Chan /\ chan \in [Server -> Chan]
  BY DEF IndInv, ChansOK
<1>2. chan' = [chan EXCEPT ![s] = d] /\ UNCHANGED <<known, linked, gone>>
      /\ wire' = wire
  BY DEF Rehash
<1>3. NoMode \in Mode /\ now \in Nat /\ c.ts \in Nat
  BY <1>1, DataAssumption DEF NoMode, Mode, Chan
<1>4. CASE c.exists
  <2>1. ChanOK(d, known[s]) /\ d.ts <= c.ts
    BY <1>1, <1>3, <1>4 DEF ChanOK, Chan
  <2> HIDE DEF d
  <2>2. ChansOK' /\ TSStep
    BY <1>2, <2>1, ChanStep
  <2> QED BY <1>2, <2>2, SameClients DEF IndInv, Good
<1>5. CASE ~c.exists
  <2>1. d = [NewChan(now) EXCEPT !.juped = TRUE]
    BY <1>5
  <2>2. d \in Chan /\ d.exists
    BY <1>3, <2>1 DEF NewChan, NoChan, Chan
  <2>3. d.members = {} /\ d.ops = {} /\ d.voices = {} /\ d.deopped = {}
    BY <2>1 DEF NewChan, NoChan
  <2> HIDE DEF d
  <2>4. ChanOK(d, known[s])
    BY <2>2, <2>3 DEF ChanOK
  <2>5. ChansOK' /\ TSStep
    BY <1>2, <1>5, <2>4, ChanStep
  <2> QED BY <1>2, <2>5, SameClients DEF IndInv, Good
<1> QED BY <1>4, <1>5

-----------------------------------------------------------------------------
(* Theorems                                                                *)

LEMMA InitInv == Init => IndInv
<1> SUFFICES ASSUME Init PROVE IndInv
  OBVIOUS
<1>1. ChansOK
  BY NoChanOK DEF Init, ChansOK, ChanOK
<1>2. KnownOK
  BY DEF Init, KnownOK, Reach, Own
<1>3. LinkOK
  BY DEF Init, LinkOK
<1>4. WireOK(wire)
  <2>1. <<>> \in Seq(Message) /\ \A V : SourcesIn(<<>>, V)
    BY DEF SourcesIn
  <2> QED BY <2>1 DEF Init, WireOK
<1> QED BY <1>1, <1>2, <1>3, <1>4, DataAssumption DEF Init, IndInv

LEMMA BudgetStep ==
    ASSUME IndInv, Next
    PROVE  script' \in Scripts /\ budget' \in Nat
<1>1. script \in Scripts /\ budget \in Nat
  BY DEF IndInv
<1>2. ASSUME NEW s, NEW name, Command(s, name)
      PROVE  script' = script /\ budget' \in Nat
  BY <1>1, <1>2 DEF Command
<1> QED BY <1>1, <1>2 DEF Next, Receive, Join, Part, Kick, SetMode, Quit, Kill,
                        Link, Split, Rehash

LEMMA NextGood ==
    ASSUME IndInv, Next
    PROVE  Good
<1>1. ASSUME NEW s \in Server, NEW t \in Server, Receive(s, t) PROVE Good
  BY <1>1, ReceiveStep
<1>2. ASSUME NEW s \in Server, NEW u \in User, NEW now \in Clock,
             Join(s, u, now)
      PROVE  Good
  BY <1>2, JoinStep
<1>3. ASSUME NEW s \in Server, NEW u \in User, Part(s, u) PROVE Good
  BY <1>3, PartStep
<1>4. ASSUME NEW s \in Server, NEW u \in User, NEW who \in User,
             Kick(s, u, who)
      PROVE  Good
  BY <1>4, KickStep
<1>5. ASSUME NEW s \in Server, NEW u \in User, NEW ch \in Change,
             SetMode(s, u, ch)
      PROVE  Good
  <2>1. WireOK(wire) /\ u \in Source
    BY DEF IndInv, Source
  <2> QED BY <1>5, <2>1, ModeStep DEF SetMode, SendAll
<1>6. ASSUME NEW s \in Server, NEW u \in User, Quit(s, u) PROVE Good
  BY <1>6, QuitStep
<1>7. ASSUME NEW s \in Server, NEW u \in User, Kill(s, u) PROVE Good
  BY <1>7, KillStep
<1>8. ASSUME NEW s \in Server, NEW t \in Server, Link(s, t) PROVE Good
  BY <1>8, LinkStep
<1>9. ASSUME NEW s \in Server, NEW t \in Server, Split(s, t) PROVE Good
  BY <1>9, SplitStep
<1>10. ASSUME NEW s \in Server, NEW on \in BOOLEAN, NEW now \in Clock,
              Rehash(s, on, now)
       PROVE  Good
  BY <1>10, RehashStep
<1> QED BY <1>1, <1>2, <1>3, <1>4, <1>5, <1>6, <1>7, <1>8, <1>9, <1>10 DEF Next

LEMMA StepInv == IndInv /\ [Next]_vars => IndInv'
<1> SUFFICES ASSUME IndInv, [Next]_vars PROVE IndInv'
  OBVIOUS
<1>1. CASE Next
  BY <1>1, NextGood, BudgetStep DEF Good, IndInv, WireOK
<1>2. CASE UNCHANGED vars
  BY <1>2 DEF vars, IndInv, ChansOK, KnownOK, LinkOK, WireOK
<1> QED BY <1>1, <1>2

THEOREM Invariance == Spec => []IndInv
BY InitInv, StepInv, PTL DEF Spec

\* TypeOK: every variable keeps its type, for any tree of servers.
THEOREM TypeCorrect == Spec => []TypeOK
<1>1. IndInv => TypeOK
  BY DEF IndInv, ChansOK, KnownOK, LinkOK, WireOK, TypeOK
<1> QED BY <1>1, Invariance, PTL

\* ChanStructure: no client exit, kick, SJOIN or mode change of channel.c
\* leaves a channel with a member the server does not have, a flag of somebody
\* who is not on it, or an operator marked deopped.
THEOREM ChannelsSound == Spec => []ChanStructure
<1>1. IndInv => ChanStructure
  BY DEF IndInv, ChansOK, ChanOK, ChanStructure
<1> QED BY <1>1, Invariance, PTL

\* NoGhosts: however links break, exit_client leaves no client of a lost link
\* behind, and no server loses a client of its own that did not quit and was
\* not killed.
THEOREM ClientsSound == Spec => []NoGhosts
<1>1. IndInv => NoGhosts
  BY DEF IndInv, KnownOK, NoGhosts, Reach, Own
<1> QED BY <1>1, Invariance, PTL

\* TSNeverRises: m_sjoin never makes the channel of somebody younger.
THEOREM TimestampsFall == Spec => TSNeverRises
<1>1. IndInv /\ [Next]_vars => [TSStep]_vars
  BY NextGood DEF Good
<1> QED BY <1>1, Invariance, PTL DEF Spec, TSNeverRises

\* ServersSound: however merges, kills and splits interleave, every server has
\* the clients it can have, and channels of theirs with sound flags.
THEOREM ServersAlwaysSound == Spec => []ServersSound
<1>1. TypeOK /\ ChanStructure /\ NoGhosts => ServersSound
  BY DEF ServersSound
<1> QED BY <1>1, TypeCorrect, ChannelsSound, ClientsSound, PTL

=============================================================================
