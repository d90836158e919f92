------------------------------ MODULE ChannelTS ------------------------------
(***************************************************************************)
(* The TimeStamp protocol for one '#' channel, as the servers of a network *)
(* run it: channel.c (m_sjoin, m_join, m_part, m_kick, set_channel_mode,   *)
(* send_channel_modes), the client exits that reach a channel (client.c,   *)
(* m_kill.c, parse.c) and the link bursts and splits around them           *)
(* (s_serv.c).  The build is the one of include/config.h: TS5, TS5_ONLY    *)
(* and JUPE_CHANNEL defined, IGNORE_BOGUS_TS and HIDE_OPS not.             *)
(*                                                                         *)
(* Servers form a tree; two neighbours are linked or split, and a link is  *)
(* a pair of FIFO streams of messages.  A User is one connection of one    *)
(* client to its home server: it registers once and, once gone, never      *)
(* comes back.  Nick collisions are the subject of another module, so no   *)
(* two users share a nick here.                                            *)
(***************************************************************************)
EXTENDS Naturals, Sequences, FiniteSets

CONSTANTS
    Server,      \* the servers of the network
    User,        \* the clients
    Home,        \* Home[u]: the server u is connected to
    Hop,         \* Hop[s][t]: s's neighbour on the path to t (->from at s)
    NoUser,      \* the source of a line a server issued itself
    SimpleModes, \* the parameterless channel modes told apart
    CreateModes, \* those m_join sets on a channel it creates (+nt)
    Params,      \* the values of +k and +l, ordered; 0 stands for "not set"
    Clock,       \* the values CurrentTime may have when a channel is created
    Scripts      \* what may happen; a behaviour follows one of them

Neighbours(s) == {t \in Server \ {s} : Hop[s][t] = t}

\* The users s reaches through its neighbour t (acptr->from == t).
Via(s, t) == {u \in User : Home[u] # s /\ Hop[s][Home[u]] = t}

ASSUME TopologyAssumption ==
    /\ Home \in [User -> Server]
    /\ Hop \in [Server -> [Server -> Server]]
    /\ NoUser \notin User

\* The servers form a tree: two neighbours see every user on one side of the
\* link between them, and on the same side.
ASSUME TreeAssumption ==
    \A s \in Server : \A t \in Neighbours(s) :
        /\ s \in Neighbours(t)
        /\ Via(t, s) = User \ Via(s, t)

ASSUME DataAssumption ==
    /\ CreateModes \subseteq SimpleModes
    /\ Params \subseteq Nat /\ 0 \in Params
    /\ Clock \subseteq Nat
    /\ \A sc \in Scripts : sc.budget \in Nat

VARIABLES
    chan,    \* chan[s]: what s holds for the channel (struct Channel)
    known,   \* known[s]: the users in s's client hash table
    linked,  \* linked[s]: the neighbours s has established a link with
    wire,    \* wire[s][t]: messages s has sent t and t has not parsed yet
    gone,    \* users whose connection has ended
    script,  \* the script the behaviour follows: the commands and events that
             \* happen at each server (does[s]), the servers that run (up), the
             \* clients that act (actors),
             \* the times channels are created at (clock), how much happens
             \* (budget), and what linked servers agree on in the end because
             \* no two of its commands race about it (agree)
    budget   \* bound: client commands and network events still allowed

vars == <<chan, known, linked, wire, gone, script, budget>>

-----------------------------------------------------------------------------
(* struct Channel, its Mode and the messages about it                      *)

Mode == [simple : SUBSET SimpleModes, limit : Params, key : Params]

NoMode == [simple |-> {}, limit |-> 0, key |-> 0]

\* members is both the channel's list of links and each user's own list (the
\* module Channel keeps them apart); juped is set by a Q line of the conf;
\* ops, voices and deopped are the members whose link carries CHFL_CHANOP,
\* CHFL_VOICE and CHFL_DEOPPED.
Chan == [exists : BOOLEAN, juped : BOOLEAN, ts : Nat, mode : Mode,
         members : SUBSET User, ops : SUBSET User, voices : SUBSET User,
         deopped : SUBSET User]

NoChan == [exists |-> FALSE, juped |-> FALSE, ts |-> 0, mode |-> NoMode,
           members |-> {}, ops |-> {}, voices |-> {}, deopped |-> {}]

\* get_channel(CREATE) zeroes the structure it allocates.
NewChan(ts) == [NoChan EXCEPT !.exists = TRUE, !.ts = ts]

\* The source of a MODE: a user, or a server.
Source == User \cup {NoUser}

\* One mode change of a MODE line.
Change ==
    [kind : {"o", "v"}, add : BOOLEAN, who : User]
        \cup [kind : {"simple"}, add : BOOLEAN, modes : SUBSET SimpleModes]
        \cup [kind : {"k", "l"}, add : BOOLEAN, arg : Params]

\* An SJOIN; zero marks a mode field of "0" (modes not given).
SjoinMsg == [type : {"SJOIN"}, ts : Nat, mode : Mode, zero : BOOLEAN,
             nicks : SUBSET User, ops : SUBSET User, voices : SUBSET User]

Message ==
    SjoinMsg
        \cup [type : {"SERVER", "EOF"}]
        \cup [type : {"NICK", "SQUIT"}, users : SUBSET User]
        \cup [type : {"PART", "QUIT", "KILL"}, who : User]
        \cup [type : {"KICK"}, by : User, who : User]
        \cup [type : {"MODE"}, by : Source, change : Change]

Sjoin(ts, mode, zero, nicks, ops, voices) ==
    [type |-> "SJOIN", ts |-> ts, mode |-> mode, zero |-> zero,
     nicks |-> nicks, ops |-> ops, voices |-> voices]

-----------------------------------------------------------------------------
(* Links.  sendto_match_servs and sendto_serv_butone send to every server  *)
(* linked here except the one the message came from.                       *)

\* w with msgs appended to every stream from s to a linked server but t.
SendButOne(w, s, t, msgs) ==
    [w EXCEPT ![s] = [x \in Server |->
        IF x \in linked[s] \ {t} THEN @[x] \o msgs ELSE @[x]]]

\* The same from a client of s: no link to leave out.
SendAll(w, s, msgs) == SendButOne(w, s, s, msgs)

-----------------------------------------------------------------------------
(* Members                                                                 *)

\* A channel that lost its last member is freed, unless it is juped here.
Sub1FromChannel(c) == IF c.members = {} /\ ~c.juped THEN NoChan ELSE c

\* remove_user_from_channel for every user of gs.
RemoveUsers(c, gs) ==
    IF gs \cap c.members = {} THEN c
    ELSE Sub1FromChannel([c EXCEPT !.members = @ \ gs, !.ops = @ \ gs,
                                   !.voices = @ \ gs, !.deopped = @ \ gs])

-----------------------------------------------------------------------------
(* m_sjoin                                                                 *)

Larger(a, b) == IF a < b THEN b ELSE a

\* Slip: a tie drops our modes, too.
KeepOurModesTie(c, newts) ==
    ~(c.exists /\ newts # 0 /\ c.ts # 0 /\ newts <= c.ts)

KeepOurModes(c, newts) ==
    ~(c.exists /\ newts # 0 /\ c.ts # 0 /\ newts < c.ts)

KeepNewModes(c, newts) ==
    ~(c.exists /\ newts # 0 /\ c.ts # 0 /\ c.ts < newts
      /\ ~(c.juped /\ c.members = {}))

\* Slip: theirs is taken without a comparison.
MergedTSTheirs(c, newts) ==
    IF c.exists /\ (newts = 0 \/ c.ts = 0) THEN 0 ELSE newts

\* The channel's timestamp after the SJOIN, also the one passed on.
MergedTS(c, newts) ==
    IF ~c.exists THEN newts
    ELSE IF newts = 0 \/ c.ts = 0 THEN 0
    ELSE IF ~KeepNewModes(c, newts) THEN c.ts
    ELSE newts

MergedMode(c, m) ==
    IF ~KeepNewModes(c, m.ts) THEN c.mode
    ELSE IF KeepOurModes(c, m.ts)
      THEN [simple |-> m.mode.simple \cup c.mode.simple,
            limit |-> Larger(m.mode.limit, c.mode.limit),
            key |-> Larger(m.mode.key, c.mode.key)]
    ELSE m.mode

\* The channel after SJOIN m, whose people are the nicks of m that exist and
\* are reached through the link m came from.  A nick that is a member already
\* keeps the flags it has.
SjoinChan(c, m, people) ==
    LET joining == people \ c.members
        theirs == KeepNewModes(c, m.ts)
        ours == KeepOurModes(c, m.ts)
    IN [exists |-> TRUE,
        juped |-> c.juped,
        ts |-> MergedTS(c, m.ts),
        mode |-> MergedMode(c, m),
        members |-> c.members \cup people,
        ops |-> (IF ours THEN c.ops ELSE {})
                  \cup (IF theirs THEN m.ops \cap joining ELSE {}),
        voices |-> (IF ours THEN c.voices ELSE {})
                     \cup (IF theirs THEN m.voices \cap joining ELSE {}),
        deopped |-> c.deopped
                      \cup (IF theirs THEN {} ELSE m.ops \cap joining)]

\* What m_sjoin passes on: the merged timestamp, our merged modes or "0",
\* and the accepted nicks, stripped of their flags when those were refused.
SjoinForward(c, m, people) ==
    LET theirs == KeepNewModes(c, m.ts)
        zero == m.zero \/ ~theirs
    IN Sjoin(MergedTS(c, m.ts),
             IF zero THEN NoMode ELSE MergedMode(c, m), zero, people,
             IF theirs THEN m.ops \cap people ELSE {},
             IF theirs THEN m.voices \cap people ELSE {})

\* s parses SJOIN m from its neighbour t.
RecvSjoin(s, t, m, w) ==
    LET people == m.nicks \cap known[s] \cap Via(s, t)
    IN /\ chan' = [chan EXCEPT ![s] = SjoinChan(@, m, people)]
       /\ wire' = IF people = {} THEN w
                  ELSE SendButOne(w, s, t,
                           <<SjoinForward(chan[s], m, people)>>)
       /\ UNCHANGED <<known, linked, gone>>

-----------------------------------------------------------------------------
(* set_channel_mode, one change of a MODE line by src.  remote: the line    *)
(* came from a server.                                                      *)

IsChop(c, src) == src = NoUser \/ src \in c.ops

\* Slip: nobody counts as deopped.
IsDeopNever(c, src) == FALSE

IsDeop(c, src) == ~IsChop(c, src) /\ src \in c.deopped

IsOk(c, src, remote) ==
    IsChop(c, src) \/ (~IsDeop(c, src) /\ remote /\ c.ts # 0)

\* +o, -o, +v and -v: the target is a member, nobody ops himself, and a server
\* gives neither.
FlagApplies(c, src, remote, ch) ==
    /\ ch.who \in c.members
    /\ remote \/ src \in c.members
    /\ ~(ch.kind = "o" /\ ch.add /\ ch.who = src)
    /\ ~(src = NoUser /\ ch.add)

\* A new key differs from the old one; -k names the key, or none ("*").
KeyApplies(c, ch) ==
    IF ch.add THEN ch.arg \notin {0, c.mode.key} ELSE ch.arg \in {0, c.mode.key}

LimitApplies(ch) == ch.add => ch.arg > 0

\* The change gets past every check that makes the code drop it.
ModeApplies(c, src, remote, ch) ==
    /\ c.exists
    /\ IsOk(c, src, remote)
    /\ ch.kind \in {"o", "v"} => FlagApplies(c, src, remote, ch)
    /\ ch.kind = "k" => KeyApplies(c, ch)
    /\ ch.kind = "l" => LimitApplies(ch)

\* A refused +o by someone deopped here marks its target deopped as well
\* (set_deopped), unless the target has ops.
MarksDeopped(c, src, remote, ch) ==
    /\ c.exists
    /\ IsDeop(c, src)
    /\ ch.kind = "o" /\ ch.add
    /\ ch.who \in c.members \ c.ops
    /\ ch.who # src
    /\ remote \/ src \in c.members

\* Slip: off by one in the limit.
ApplyChangeOffByOne(c, ch) ==
    [c EXCEPT !.mode.limit = IF ch.kind = "l" /\ ch.add THEN ch.arg + 1 ELSE @]

\* S with x, or without.
Flip(S, add, x) == IF add THEN S \cup x ELSE S \ x

\* Getting ops clears the mark of having been refused them.
ChangeChanFlag(c, ch) ==
    IF ch.kind = "v" THEN [c EXCEPT !.voices = Flip(@, ch.add, {ch.who})]
    ELSE [c EXCEPT !.ops = Flip(@, ch.add, {ch.who}),
                   !.deopped = IF ch.add THEN @ \ {ch.who} ELSE @]

ApplySimple(c, ch) == [c EXCEPT !.mode.simple = Flip(@, ch.add, ch.modes)]

ApplyChange(c, ch) ==
    CASE ch.kind \in {"o", "v"} -> ChangeChanFlag(c, ch)
      [] ch.kind = "simple" -> ApplySimple(c, ch)
      [] ch.kind = "k" -> [c EXCEPT !.mode.key = IF ch.add THEN ch.arg ELSE 0]
      [] ch.kind = "l" -> [c EXCEPT !.mode.limit = IF ch.add THEN ch.arg ELSE 0]

SetChannelMode(c, src, remote, ch) ==
    IF ModeApplies(c, src, remote, ch) THEN ApplyChange(c, ch)
    ELSE IF MarksDeopped(c, src, remote, ch)
      THEN [c EXCEPT !.deopped = @ \cup {ch.who}]
    ELSE c

\* What set_channel_mode sends the other servers: the change, preceded by
\* the removal of the key a new key replaces; nothing if it was dropped.
ModeForward(c, src, remote, ch) ==
    LET line(x) == [type |-> "MODE", by |-> src, change |-> x]
        keyOff == line([kind |-> "k", add |-> FALSE, arg |-> c.mode.key])
    IN IF ~ModeApplies(c, src, remote, ch) THEN <<>>
       ELSE IF ch.kind = "k" /\ ~ch.add THEN <<keyOff>>
       ELSE IF ch.kind = "k" /\ c.mode.key # 0 THEN <<keyOff, line(ch)>>
       ELSE <<line(ch)>>

-----------------------------------------------------------------------------
(* Messages from a neighbour t, w being the streams without the one parsed *)

\* Slip: the client leaves the hash table and not its channels.
ForgetUserOnly(s, gs) ==
    /\ chan' = chan
    /\ known' = [known EXCEPT ![s] = @ \ gs]

\* exit_client at s of the users gone, whose QUIT or KILL has been sent.
Forget(s, gs) ==
    /\ chan' = [chan EXCEPT ![s] = RemoveUsers(@, gs)]
    /\ known' = [known EXCEPT ![s] = @ \ gs]

\* parse(): a line whose source is not known here is dropped and answered
\* with a KILL to the server that sent it (remove_unknown).
UnknownPrefix(s, t, u, w) ==
    /\ u \notin known[s]
    /\ wire' = [w EXCEPT ![s][t] =
                   Append(@, [type |-> "KILL", who |-> u])]
    /\ UNCHANGED <<chan, known, linked, gone>>

\* Slip: the introduction is not passed on.
RecvNickSilent(s, t, m, w) ==
    /\ known' = [known EXCEPT ![s] = @ \cup m.users]
    /\ wire' = w
    /\ UNCHANGED <<chan, linked, gone>>

RecvNick(s, t, m, w) ==
    /\ known' = [known EXCEPT ![s] = @ \cup m.users]
    /\ wire' = SendButOne(w, s, t, <<m>>)
    /\ UNCHANGED <<chan, linked, gone>>

RecvPart(s, t, m, w) ==
    \/ UnknownPrefix(s, t, m.who, w)
    \/ /\ m.who \in known[s]
       /\ chan' = [chan EXCEPT ![s] = RemoveUsers(@, {m.who})]
       /\ wire' = IF m.who \in chan[s].members
                  THEN SendButOne(w, s, t, <<m>>) ELSE w
       /\ UNCHANGED <<known, linked, gone>>

\* A remote kick is believed even from someone who shows as no operator here,
\* unless the channel has no timestamp.
RecvKick(s, t, m, w) ==
    LET c == chan[s]
        allowed == /\ c.exists
                   /\ m.by \in c.ops \/ c.ts # 0
                   /\ m.who \in c.members
    IN \/ UnknownPrefix(s, t, m.by, w)
       \/ /\ m.by \in known[s]
          /\ chan' = IF allowed
                     THEN [chan EXCEPT ![s] = RemoveUsers(@, {m.who})]
                     ELSE chan
          /\ wire' = IF allowed THEN SendButOne(w, s, t, <<m>>) ELSE w
          /\ UNCHANGED <<known, linked, gone>>

RecvMode(s, t, m, w) ==
    \/ m.by # NoUser /\ UnknownPrefix(s, t, m.by, w)
    \/ /\ m.by = NoUser \/ m.by \in known[s]
       /\ chan' = [chan EXCEPT ![s] =
                      SetChannelMode(@, m.by, TRUE, m.change)]
       /\ wire' = SendButOne(w, s, t,
                      ModeForward(chan[s], m.by, TRUE, m.change))
       /\ UNCHANGED <<known, linked, gone>>

RecvQuit(s, t, m, w) ==
    \/ UnknownPrefix(s, t, m.who, w)
    \/ /\ m.who \in known[s]
       /\ Forget(s, {m.who})
       /\ wire' = SendButOne(w, s, t, <<m>>)
       /\ UNCHANGED <<linked, gone>>

\* Slip: a KILL for a client that is not known is treated like any other line
\* about an unknown client.
RecvKillAnswered(s, t, m, w) ==
    \/ UnknownPrefix(s, t, m.who, w)
    \/ /\ m.who \in known[s]
       /\ Forget(s, {m.who})
       /\ wire' = SendButOne(w, s, t, <<m>>)
       /\ gone' = IF Home[m.who] = s THEN gone \cup {m.who} ELSE gone
       /\ UNCHANGED linked

\* m_kill from a server; the victim may be a client of s.
RecvKill(s, t, m, w) ==
    \/ /\ m.who \notin known[s]
       /\ wire' = w
       /\ UNCHANGED <<chan, known, linked, gone>>
    \/ /\ m.who \in known[s]
       /\ Forget(s, {m.who})
       /\ wire' = SendButOne(w, s, t, <<m>>)
       /\ gone' = IF Home[m.who] = s THEN gone \cup {m.who} ELSE gone
       /\ UNCHANGED linked

\* The users behind a link that broke further away.
RecvSquit(s, t, m, w) ==
    /\ Forget(s, m.users)
    /\ wire' = SendButOne(w, s, t, <<m>>)
    /\ UNCHANGED <<linked, gone>>

\* Slip: the link is closed and nobody behind it exits.
CloseLinkKeepsUsers(s, t, w) ==
    /\ linked' = [linked EXCEPT ![s] = @ \ {t}]
    /\ wire' = SendButOne(w, s, t,
                   <<[type |-> "SQUIT", users |-> Via(s, t)]>>)
    /\ UNCHANGED <<chan, known, gone>>

\* The link from s to t is gone: exit_client at s of t and of everyone behind
\* it (remove_dependents), and a SQUIT to the other neighbours.
CloseLink(s, t, w) ==
    /\ linked' = [linked EXCEPT ![s] = @ \ {t}]
    /\ Forget(s, Via(s, t))
    /\ wire' = SendButOne(w, s, t,
                   <<[type |-> "SQUIT", users |-> Via(s, t)]>>)
    /\ UNCHANGED gone

\* s has read all that t sent before t closed the connection.
RecvEof(s, t, m, w) == CloseLink(s, t, [w EXCEPT ![s][t] = <<>>])

\* server_estab: the burst introduces every user not behind the new link,
\* then the channel, unless nobody is on it (send_channel_modes).
BurstTo(s, t) ==
    LET c == chan[s]
        nick == <<[type |-> "NICK", users |-> known[s] \ Via(s, t)]>>
    IN IF c.members = {} THEN nick
       ELSE nick \o <<Sjoin(c.ts, c.mode, FALSE, c.members, c.ops, c.voices)>>

\* m_server at the end that asked for the link: it bursts in its turn.
RecvServer(s, t, m, w) ==
    /\ linked' = [linked EXCEPT ![s] = @ \cup {t}]
    /\ wire' = [w EXCEPT ![s][t] = @ \o BurstTo(s, t)]
    /\ UNCHANGED <<chan, known, gone>>

\* s parses the next line its neighbour t sent.  What t still sends on a
\* connection that s has closed is never read.
Receive(s, t) ==
    /\ wire[t][s] # <<>>
    /\ LET m == Head(wire[t][s])
           w == [wire EXCEPT ![t][s] = Tail(@)]
       IN \/ m.type = "SERVER" /\ RecvServer(s, t, m, w)
          \/ /\ t \in linked[s]
             /\ \/ m.type = "SJOIN" /\ RecvSjoin(s, t, m, w)
                \/ m.type = "NICK" /\ RecvNick(s, t, m, w)
                \/ m.type = "PART" /\ RecvPart(s, t, m, w)
                \/ m.type = "KICK" /\ RecvKick(s, t, m, w)
                \/ m.type = "MODE" /\ RecvMode(s, t, m, w)
                \/ m.type = "QUIT" /\ RecvQuit(s, t, m, w)
                \/ m.type = "KILL" /\ RecvKill(s, t, m, w)
                \/ m.type = "SQUIT" /\ RecvSquit(s, t, m, w)
                \/ m.type = "EOF" /\ RecvEof(s, t, m, w)
    /\ UNCHANGED <<script, budget>>

-----------------------------------------------------------------------------
(* Commands of s's own clients and events on s's links                     *)

Command(s, name) ==
    /\ name \in script.does[s]
    /\ budget > 0
    /\ budget' = budget - 1
    /\ UNCHANGED script

Local(s, u) == Home[u] = s /\ u \in known[s] /\ u \in script.actors

\* m_join by a local client.  Bans, keys and invitations (can_join) are in
\* module Channel: here a client may hold whatever admits it.
Join(s, u, now) ==
    /\ Command(s, "JOIN") /\ now \in script.clock
    /\ Local(s, u) /\ u \notin chan[s].members
    /\ ~chan[s].juped
    /\ LET c == chan[s] IN
       \/ /\ ~c.exists
          /\ chan' = [chan EXCEPT ![s] =
                 [NewChan(now) EXCEPT !.mode.simple = CreateModes,
                                      !.members = {u}, !.ops = {u}]]
          /\ wire' = SendAll(wire, s,
                 <<Sjoin(now, NoMode, FALSE, {u}, {u}, {}),
                   [type |-> "MODE", by |-> NoUser,
                    change |-> [kind |-> "simple", add |-> TRUE,
                                modes |-> CreateModes]]>>)
       \/ /\ c.exists
          /\ c.mode.limit = 0 \/ Cardinality(c.members) < c.mode.limit
          /\ chan' = [chan EXCEPT ![s].members = @ \cup {u}]
          /\ wire' = SendAll(wire, s,
                 <<Sjoin(c.ts, NoMode, FALSE, {u}, {}, {})>>)
    /\ UNCHANGED <<known, linked, gone>>

Part(s, u) ==
    /\ Command(s, "PART")
    /\ Local(s, u) /\ u \in chan[s].members
    /\ chan' = [chan EXCEPT ![s] = RemoveUsers(@, {u})]
    /\ wire' = SendAll(wire, s, <<[type |-> "PART", who |-> u]>>)
    /\ UNCHANGED <<known, linked, gone>>

Kick(s, u, who) ==
    /\ Command(s, "KICK")
    /\ Local(s, u) /\ u \in chan[s].ops /\ who \in chan[s].members
    /\ chan' = [chan EXCEPT ![s] = RemoveUsers(@, {who})]
    /\ wire' = SendAll(wire, s, <<[type |-> "KICK", by |-> u, who |-> who]>>)
    /\ UNCHANGED <<known, linked, gone>>

\* m_mode, with one change of a letter tried at s; one that is dropped leaves
\* nothing behind.
SetMode(s, u, ch) ==
    /\ Command(s, ch.kind)
    /\ Local(s, u)
    /\ ModeApplies(chan[s], u, FALSE, ch)
         \/ MarksDeopped(chan[s], u, FALSE, ch)
    /\ chan' = [chan EXCEPT ![s] = SetChannelMode(@, u, FALSE, ch)]
    /\ wire' = SendAll(wire, s, ModeForward(chan[s], u, FALSE, ch))
    /\ UNCHANGED <<known, linked, gone>>

Quit(s, u) ==
    /\ Command(s, "QUIT")
    /\ Local(s, u)
    /\ Forget(s, {u})
    /\ wire' = SendAll(wire, s, <<[type |-> "QUIT", who |-> u]>>)
    /\ gone' = gone \cup {u}
    /\ UNCHANGED linked

\* An operator of s kills a client of another server (m_kill).
Kill(s, u) ==
    /\ Command(s, "KILL")
    /\ Home[u] # s /\ u \in known[s]
    /\ Forget(s, {u})
    /\ wire' = SendAll(wire, s, <<[type |-> "KILL", who |-> u]>>)
    /\ UNCHANGED <<linked, gone>>

\* m_server and server_estab at s for a connection t has opened: s answers
\* with its own SERVER and its burst in one go.  m_server refuses a server
\* that is linked already, so the old link must be gone at both ends.
Link(s, t) ==
    /\ Command(s, "LINK")
    /\ t \in (Neighbours(s) \cap script.up) \ linked[s]
    /\ s \notin linked[t]
    /\ wire[s][t] = <<>> /\ wire[t][s] = <<>>
    /\ linked' = [linked EXCEPT ![s] = @ \cup {t}]
    /\ wire' = [wire EXCEPT ![s][t] = <<[type |-> "SERVER"]>> \o BurstTo(s, t)]
    /\ UNCHANGED <<chan, known, gone>>

\* s finds its connection to t dead, or closes it.  What t sent and s has not
\* read is lost; t reads on to the end of what s sent, or notices before.
Split(s, t) ==
    /\ Command(s, "SPLIT")
    /\ t \in linked[s]
    /\ LET in == wire[t][s]
           closed == in # <<>> /\ in[Len(in)].type = "EOF"
       IN CloseLink(s, t, [wire EXCEPT
              ![t][s] = <<>>,
              ![s][t] = IF closed THEN <<>>
                        ELSE Append(@, [type |-> "EOF"])])

\* A rehash that adds (on) or drops the Q line for the channel: conf_add_conf
\* creates the channel if need be, clear_juped_channels only clears the mark.
Rehash(s, on, now) ==
    /\ Command(s, "REHASH") /\ now \in script.clock
    /\ chan[s].juped # on
    /\ chan' = [chan EXCEPT ![s] =
          IF chan[s].exists THEN [@ EXCEPT !.juped = on]
          ELSE [NewChan(now) EXCEPT !.juped = TRUE]]
    /\ UNCHANGED <<known, linked, wire, gone>>

-----------------------------------------------------------------------------

Init ==
    /\ chan = [s \in Server |-> NoChan]
    /\ known = [s \in Server |-> {u \in User : Home[u] = s}]
    /\ linked = [s \in Server |-> {}]
    /\ wire = [s \in Server |-> [t \in Server |-> <<>>]]
    /\ gone = {}
    /\ script \in Scripts
    /\ budget = script.budget

Next ==
    \/ \E s, t \in Server : Receive(s, t)
    \/ \E s \in Server, u \in User, now \in Clock : Join(s, u, now)
    \/ \E s \in Server, u \in User : Part(s, u)
    \/ \E s \in Server, u, who \in User : Kick(s, u, who)
    \/ \E s \in Server, u \in User, ch \in Change : SetMode(s, u, ch)
    \/ \E s \in Server, u \in User : Quit(s, u)
    \/ \E s \in Server, u \in User : Kill(s, u)
    \/ \E s, t \in Server : Link(s, t)
    \/ \E s, t \in Server : Split(s, t)
    \/ \E s \in Server, on \in BOOLEAN, now \in Clock : Rehash(s, on, now)

Spec == Init /\ [][Next]_vars

\* io_loop reads every socket that has data, so that it never stops for good
\* while there is a line to parse.  CanReceive is ENABLED Receive(s, t) for
\* some s and t, and of all steps only a Receive leaves the budget alone: the
\* second conjunct of FairSpec is WF_vars(\E s, t \in Server : Receive(s, t)).
CanReceive ==
    \E s, t \in Server :
        /\ wire[t][s] # <<>>
        /\ Head(wire[t][s]).type = "SERVER" \/ t \in linked[s]

FairSpec ==
    /\ Spec
    /\ []<>~CanReceive \/ []<><<UNCHANGED budget>>_vars

-----------------------------------------------------------------------------
(* Invariants                                                              *)

\* Every variable has its type.
TypeOK ==
    /\ chan \in [Server -> Chan]
    /\ known \in [Server -> SUBSET User]
    /\ linked \in [Server -> SUBSET Server]
    /\ wire \in [Server -> [Server -> Seq(Message)]]
    /\ gone \subseteq User
    /\ script \in Scripts
    /\ budget \in Nat

\* What channel.c relies on whenever it walks a channel: every member is a
\* client this server still has (exit_client leaves no member behind), a flag
\* is a flag of a member, nobody is both operator and marked deopped, and a
\* channel that was freed leaves nothing to be found.
ChanStructure ==
    \A s \in Server : LET c == chan[s] IN
        /\ c.members \subseteq known[s]
        /\ c.ops \cup c.voices \cup c.deopped \subseteq c.members
        /\ c.ops \cap c.deopped = {}
        /\ c.exists \/ c = NoChan

\* Links are between neighbours, and only they carry messages.
LinkStructure ==
    \A s, t \in Server :
        /\ t \in linked[s] => t \in Neighbours(s)
        /\ wire[s][t] # <<>> => t \in Neighbours(s)

\* The clients a message introduces to its receiver, or takes away.
Carried(m) ==
    IF m.type \in {"NICK", "SQUIT"} THEN m.users
    ELSE IF m.type = "QUIT" THEN {m.who}
    ELSE {}

\* What s sends t about clients coming and going is about clients on its side.
WireSources ==
    \A s, t \in Server : \A i \in 1..Len(wire[s][t]) :
        Carried(wire[s][t][i]) \subseteq Via(t, s)

\* No ghosts and nobody lost, whatever links break and in whichever order the
\* two ends notice: a server holds a client only if it is its own or behind
\* one of its established links (remove_dependents takes all the others), and
\* it drops a client of its own only when the client quits or is killed.
NoGhosts ==
    \A s \in Server :
        /\ known[s] \subseteq {u \in User : Home[u] = s}
                                \cup UNION {Via(s, t) : t \in linked[s]}
        /\ {u \in User : Home[u] = s} \ known[s] \subseteq gone

-----------------------------------------------------------------------------
(* Action properties                                                       *)

\* The timestamp of a channel only moves to an older one, so that nobody gains
\* by being late: as long as somebody is on the channel here, or a placeholder
\* is what it is, no message and no command makes it younger.
TSStep ==
    \A s \in Server :
        chan[s].exists /\ chan[s].members # {} /\ chan'[s].exists
            => chan'[s].ts <= chan[s].ts

TSNeverRises == [][TSStep]_vars

-----------------------------------------------------------------------------
(* Agreement of linked servers once nothing is in flight                   *)

AllQuiet == \A s, t \in Server : wire[s][t] = <<>>

LinkedPairs == {p \in Server \X Server : p[2] \in linked[p[1]]}

\* Linked servers know the same clients and the same members of the channel,
\* in a script without kicks, kills and quits that may cross a join.
NamesAgree ==
    AllQuiet /\ "names" \in script.agree => \A p \in LinkedPairs :
        /\ known[p[1]] = known[p[2]]
        /\ chan[p[1]].members = chan[p[2]].members

\* Linked servers hold the same channel: timestamp, modes, members, operators
\* and voices.  (Each server keeps its own marks of deopped members.)  So it
\* is in a script in which nobody leaves and at most one side changes modes:
\* nothing in channel.c orders the changes of two sides.
ChannelsAgree ==
    LET shared(s) == [chan[s] EXCEPT !.juped = FALSE, !.deopped = {}]
    IN AllQuiet /\ "channel" \in script.agree =>
           \A p \in LinkedPairs : shared(p[1]) = shared(p[2])

\* The servers stop talking once clients do: no message is sent back and
\* forth for ever, not even the KILLs for unknown sources.
Settles == <>[]AllQuiet

\* What every server holds is sound by itself at every moment: types, members
\* and flags of its channels, and the clients it has (channel.c, client.c).
ServersSound == TypeOK /\ ChanStructure /\ NoGhosts

\* Servers that have said everything to each other have the same nicks with
\* the same timestamps and the same channels (m_nick, m_sjoin).
ServersAgree == NamesAgree /\ ChannelsAgree
=============================================================================
