------------------------------- MODULE Channel -------------------------------
(***************************************************************************)
(* The channels of one server and the lists that tie them to its clients   *)
(* (channel.c, the exit of a client in client.c, Q lines in s_conf.c).     *)
(*                                                                         *)
(* A membership is two links, one in the channel's list and one in the     *)
(* client's, and two counters; an invitation is two links; a mask on one   *)
(* of the three lists of a channel counts in num_bed.  Each handler keeps  *)
(* every copy by itself, and channels are freed under the feet of clients  *)
(* invited to them: the module keeps every copy apart, as the code does.   *)
(*                                                                         *)
(* Timestamps are the subject of ChannelTS; of an SJOIN this module keeps  *)
(* who wins.  A key is something a client knows or does not: a JOIN that   *)
(* can_join refuses for the key, the spambot check or the split mode does  *)
(* nothing, and so is no step here.  A line that names several channels is *)
(* as many lines that name one.                                            *)
(***************************************************************************)
EXTENDS Integers, FiniteSets

CONSTANTS
    Client,       \* the users of the network
    Local,        \* those connected to this server
    Channel,      \* channel names
    Mask,         \* the masks of bans, exceptions and invite exceptions
    Hits,         \* Hits[m]: the clients whose nick!user@host m matches
    Covers,       \* Covers[m]: the masks that match(m, .) holds for
    Limits,       \* the values of +l; 0 stands for "not set"
    MaxChannels,  \* MAXCHANNELSPERUSER
    MaxBans,      \* MAXBANS
    Commands      \* the commands and events that happen

ASSUME ClientAssumption == Local \subseteq Client /\ IsFiniteSet(Client)

ASSUME ChannelAssumption ==
    /\ IsFiniteSet(Channel)
    /\ MaxChannels \in Nat \ {0}

ASSUME MaskAssumption ==
    /\ IsFiniteSet(Mask)
    /\ Hits \in [Mask -> SUBSET Client]
    /\ Covers \in [Mask -> SUBSET Mask]
    /\ \A m \in Mask : m \in Covers[m]
    /\ 0 \in Limits /\ Limits \subseteq Nat
    /\ MaxBans \in Nat

VARIABLES
    chan,     \* chan[c]: the struct Channel of that name
    user,     \* user[u]: the channel fields of u's anUser
    alive,    \* the registered clients
    count,    \* Count.chan
    orphans   \* masks that are allocated and on no channel's list

vars == <<chan, user, alive, count, orphans>>

-----------------------------------------------------------------------------
(* The structures                                                          *)

Chan == [exists : BOOLEAN, juped : BOOLEAN, inviteonly : BOOLEAN,
         limit : Limits, members : SUBSET Client, users : Int,
         ops : SUBSET Client, invites : SUBSET Client,
         ban : SUBSET Mask, exempt : SUBSET Mask, invex : SUBSET Mask,
         numbed : Int]

NoChan == [exists |-> FALSE, juped |-> FALSE, inviteonly |-> FALSE,
           limit |-> 0, members |-> {}, users |-> 0,
           ops |-> {}, invites |-> {},
           ban |-> {}, exempt |-> {}, invex |-> {}, numbed |-> 0]

\* get_channel(CREATE) zeroes what it allocates.
NewChan == [NoChan EXCEPT !.exists = TRUE]

\* user->channel, user->joined and user->invited.  The order of invited
\* matters: it is the set of pairs <<a, b>> with a at or before b in the list.
UserRec == [channel : SUBSET Channel, joined : Int,
            invited : SUBSET (Channel \X Channel), oper : BOOLEAN]

\* make_user
NewUser == [channel |-> {}, joined |-> 0, invited |-> {}, oper |-> FALSE]

-----------------------------------------------------------------------------
(* Invitations                                                             *)

\* The channels on the list.
Invited(inv) == {c \in Channel : <<c, c>> \in inv}

\* del_invite: the list without the channels of cs, a client and a channel
\* without the links.  add_invite: the list with c at its end.
Without(inv, cs) == {p \in inv : p[1] \notin cs /\ p[2] \notin cs}

DropInvites(r, cs) == [r EXCEPT !.invited = Without(@, cs)]

Uninvite(ch, us) == [ch EXCEPT !.invites = @ \ us]

WithLast(inv, c) == inv \cup ((Invited(inv) \cup {c}) \X {c})

\* The head of the list, which is the oldest invitation.
Oldest(inv) == CHOOSE a \in Invited(inv) :
                   \A b \in Invited(inv) : <<a, b>> \in inv

\* Slip: as the code once was, the channel side is forgotten.
AddInviteForgets(u, c) ==
    LET rest == Without(user[u].invited, {c})
        full == Cardinality(Invited(rest)) >= MaxChannels
        kept == IF full THEN Without(rest, {Oldest(rest)}) ELSE rest
    IN /\ user' = [user EXCEPT ![u].invited = WithLast(kept, c)]
       /\ chan' = [chan EXCEPT ![c].invites = @ \cup {u}]

\* Slip: off by one in the length of the list.
AddInviteOneMore(u, c) ==
    LET rest == Without(user[u].invited, {c})
        full == Cardinality(Invited(rest)) > MaxChannels
        drop == IF full THEN {Oldest(rest)} ELSE {}
    IN /\ user' = [user EXCEPT ![u].invited = WithLast(Without(rest, drop), c)]
       /\ chan' = [d \in Channel |->
             IF d = c THEN [chan[d] EXCEPT !.invites = @ \cup {u}]
             ELSE IF d \in drop THEN Uninvite(chan[d], {u})
             ELSE chan[d]]

\* add_invite: an older invitation to the same channel goes first, and then
\* the oldest one if the list is full.
AddInvite(u, c) ==
    LET rest == Without(user[u].invited, {c})
        full == Cardinality(Invited(rest)) >= MaxChannels
        drop == IF full THEN {Oldest(rest)} ELSE {}
    IN /\ user' = [user EXCEPT ![u].invited = WithLast(Without(rest, drop), c)]
       /\ chan' = [d \in Channel |->
             IF d = c THEN [chan[d] EXCEPT !.invites = @ \cup {u}]
             ELSE IF d \in drop THEN Uninvite(chan[d], {u})
             ELSE chan[d]]

-----------------------------------------------------------------------------
(* Members.  Each operation has a channel's side and a client's side.      *)

\* add_user_to_channel
AddUserToChannel(ch, us, ops) ==
    [ch EXCEPT !.members = @ \cup us, !.users = @ + Cardinality(us),
               !.ops = @ \cup ops]

AddChannel(r, c) == [r EXCEPT !.channel = @ \cup {c}, !.joined = @ + 1]

\* The channel after sub1_from_channel.
Sub1FromChannel(ch) ==
    IF ch.users - 1 > 0 THEN [ch EXCEPT !.users = @ - 1]
    ELSE IF ch.juped THEN [ch EXCEPT !.users = 0, !.invites = {}]
    ELSE NoChan

\* remove_user_from_channel
RemoveMember(ch, u) ==
    Sub1FromChannel([ch EXCEPT !.members = @ \ {u}, !.ops = @ \ {u}])

\* Slip: the client keeps its links to the channels.
LeaveChannelsLinked(r, cs) == [r EXCEPT !.joined = @ - Cardinality(cs)]

\* Slip: the counter of the client is forgotten.
LeaveChannelsUncounted(r, cs) == [r EXCEPT !.channel = @ \ cs]

LeaveChannels(r, cs) ==
    [r EXCEPT !.channel = @ \ cs, !.joined = @ - Cardinality(cs)]

\* The channels of cs that sub1_from_channel frees.
Freed(cs) == {c \in cs : chan[c].users - 1 <= 0 /\ ~chan[c].juped}

\* The channels of cs, juped or not, that v is no longer invited to.
Uninvited(v, cs) ==
    {c \in cs : chan[c].users - 1 <= 0 /\ v \in chan[c].invites}

\* free_bans_exceptions_denies frees two of the three lists.
LostMasks(cs) == UNION {chan[c].invex : c \in Freed(cs)}

\* remove_user_from_channel for u and every channel of cs.
RemoveFrom(u, cs) ==
    /\ chan' = [c \in Channel |->
          IF c \in cs THEN RemoveMember(chan[c], u) ELSE chan[c]]
    /\ user' = [v \in Client |->
          DropInvites(IF v = u THEN LeaveChannels(user[u], cs) ELSE user[v],
                      Uninvited(v, cs))]
    /\ count' = count - Cardinality(Freed(cs))
    /\ orphans' = orphans \cup LostMasks(cs)

-----------------------------------------------------------------------------
(* Who may do what                                                         *)

Does(name) == name \in Commands

\* The client's own list is searched.
IsMember(u, c) == c \in user[u].channel

\* is_banned and is_invex
IsBanned(u, c) ==
    /\ \E m \in chan[c].ban : u \in Hits[m]
    /\ ~\E m \in chan[c].exempt : u \in Hits[m]

IsInvex(u, c) == \E m \in chan[c].invex : u \in Hits[m]

\* Slip: off by one in the limit.
CanJoinOneMore(u, c) ==
    /\ ~chan[c].juped
    /\ ~IsBanned(u, c)
    /\ chan[c].inviteonly => IsInvex(u, c) \/ c \in Invited(user[u].invited)
    /\ chan[c].limit # 0 => chan[c].users <= chan[c].limit

\* can_join looks at the client's list.
CanJoin(u, c) ==
    /\ ~chan[c].juped
    /\ ~IsBanned(u, c)
    /\ chan[c].inviteonly => IsInvex(u, c) \/ c \in Invited(user[u].invited)
    /\ chan[c].limit # 0 => chan[c].users < chan[c].limit

TooManyChannels(u) ==
    /\ user[u].joined >= MaxChannels
    /\ ~user[u].oper \/ user[u].joined >= 3 * MaxChannels

\* A local client needs ops.  A remote one is believed; the timestamp rules
\* that qualify this are in ChannelTS.
MayChange(u, c) ==
    /\ u \in alive /\ chan[c].exists
    /\ u \in Local => u \in chan[c].ops

-----------------------------------------------------------------------------
(* Clients come and go                                                     *)

Register(u) ==
    /\ u \notin alive
    /\ alive' = alive \cup {u}
    /\ user' = [user EXCEPT ![u] = NewUser]
    /\ UNCHANGED <<chan, count, orphans>>

Oper(u) ==
    /\ Does("OPER")
    /\ u \in alive \cap Local /\ ~user[u].oper
    /\ user' = [user EXCEPT ![u].oper = TRUE]
    /\ UNCHANGED <<chan, alive, count, orphans>>

\* MODE -o on himself: he stays on all his channels.
Deoper(u) ==
    /\ Does("OPER")
    /\ u \in alive \cap Local /\ user[u].oper
    /\ user' = [user EXCEPT ![u].oper = FALSE]
    /\ UNCHANGED <<chan, alive, count, orphans>>

\* Slip: the invitations of a client that exits stay with their channels.
ExitOneClientInvited(u) ==
    /\ u \in alive
    /\ RemoveFrom(u, user[u].channel)
    /\ alive' = alive \ {u}

\* exit_one_client: every channel, then every invitation left.
ExitOneClient(u) ==
    LET cs == user[u].channel
        left == Invited(user[u].invited)
    IN /\ u \in alive
       /\ chan' = [c \in Channel |->
             Uninvite(IF c \in cs THEN RemoveMember(chan[c], u) ELSE chan[c],
                      IF c \in left THEN {u} ELSE {})]
       /\ user' = [v \in Client |->
             IF v = u THEN DropInvites(LeaveChannels(user[u], cs), left)
             ELSE DropInvites(user[v], Uninvited(v, cs))]
       /\ count' = count - Cardinality(Freed(cs))
       /\ orphans' = orphans \cup LostMasks(cs)
       /\ alive' = alive \ {u}

-----------------------------------------------------------------------------
(* JOIN, SJOIN, PART, KICK                                                 *)

\* Slip: an invitation outlives its use.
JoinExistingInvited(u, c) ==
    /\ chan[c].exists
    /\ CanJoin(u, c)
    /\ chan' = [chan EXCEPT ![c] = AddUserToChannel(@, {u}, {})]
    /\ user' = [user EXCEPT ![u] = AddChannel(@, c)]
    /\ UNCHANGED count

JoinExisting(u, c) ==
    /\ chan[c].exists
    /\ CanJoin(u, c)
    /\ chan' = [chan EXCEPT ![c] =
                   Uninvite(AddUserToChannel(@, {u}, {}), {u})]
    /\ user' = [user EXCEPT ![u] = DropInvites(AddChannel(@, c), {c})]
    /\ UNCHANGED count

\* The first to enter is the operator.  Nothing keeps a client out of a
\* channel just created, and nobody is invited to it.
JoinNew(u, c) ==
    /\ ~chan[c].exists
    /\ chan' = [chan EXCEPT ![c] = AddUserToChannel(NewChan, {u}, {u})]
    /\ user' = [user EXCEPT ![u] = DropInvites(AddChannel(@, c), {c})]
    /\ count' = count + 1

\* m_join by a local client
Join(u, c) ==
    /\ Does("JOIN")
    /\ u \in alive \cap Local
    /\ ~TooManyChannels(u)
    /\ ~IsMember(u, c)
    /\ JoinExisting(u, c) \/ JoinNew(u, c)
    /\ UNCHANGED <<alive, orphans>>

\* m_sjoin skips a nick that is a member.
Joining(us, c) == {u \in us : ~IsMember(u, c)}

\* The modes after m_sjoin.  Whose count: "theirs" if the channel is new here
\* or their timestamp is older, "ours" if it is newer, else "both".  They are
\* set without a look at who is invited.
SjoinModes(ch, wins, plusI, limit) ==
    CASE wins = "theirs" -> [ch EXCEPT !.ops = {}, !.inviteonly = plusI,
                                       !.limit = limit]
      [] wins = "both" -> [ch EXCEPT !.inviteonly = @ \/ plusI,
                                     !.limit = IF @ < limit THEN limit ELSE @]
      [] wins = "ours" -> ch

\* m_sjoin with the nicks us, perhaps none that is known here.  Modes that do
\* not count, and an @ before nobody's nick, are not told apart.
Sjoin(us, c, opped, wins, plusI, limit) ==
    LET new == Joining(us, c)
        old == IF chan[c].exists THEN chan[c] ELSE NewChan
    IN /\ Does("SJOIN")
       /\ ~chan[c].exists => wins = "theirs"
       /\ wins = "ours" => ~plusI /\ ~opped /\ limit = 0
       /\ opped => new # {}
       /\ chan' = [chan EXCEPT ![c] =
             AddUserToChannel(SjoinModes(old, wins, plusI, limit), new,
                              IF opped THEN new ELSE {})]
       /\ user' = [u \in Client |->
             IF u \in new THEN AddChannel(user[u], c) ELSE user[u]]
       /\ count' = IF chan[c].exists THEN count ELSE count + 1
       /\ UNCHANGED <<alive, orphans>>

Part(u, c) ==
    /\ Does("PART")
    /\ u \in alive
    /\ chan[c].exists /\ IsMember(u, c)
    /\ RemoveFrom(u, {c})
    /\ UNCHANGED alive

\* JOIN 0
PartAll(u) ==
    /\ Does("JOIN0")
    /\ u \in alive
    /\ user[u].channel # {}
    /\ RemoveFrom(u, user[u].channel)
    /\ UNCHANGED alive

Kick(by, u, c) ==
    /\ Does("KICK")
    /\ MayChange(by, c)
    /\ u \in alive /\ IsMember(u, c)
    /\ RemoveFrom(u, {c})
    /\ UNCHANGED alive

-----------------------------------------------------------------------------
(* INVITE and MODE                                                         *)

\* m_invite, when it leaves a trace: the channel is +i and u is ours.
Invite(by, u, c) ==
    /\ Does("INVITE")
    /\ {by, u} \subseteq alive
    /\ chan[c].exists
    /\ IsMember(by, c) /\ ~IsMember(u, c)
    /\ chan[c].inviteonly /\ by \in chan[c].ops
    /\ u \in Local
    /\ AddInvite(u, c)
    /\ UNCHANGED <<alive, count, orphans>>

ModeOp(by, u, c, add) ==
    /\ Does("MODE o")
    /\ MayChange(by, c)
    /\ IsMember(u, c)
    /\ ~(add /\ u = by)
    /\ chan' = [chan EXCEPT ![c].ops = IF add THEN @ \cup {u} ELSE @ \ {u}]
    /\ UNCHANGED <<user, alive, count, orphans>>

\* -i deletes every invitation to the channel.
ModeInviteOnly(by, c, add) ==
    LET out == IF add THEN {} ELSE chan[c].invites
    IN /\ Does("MODE i")
       /\ MayChange(by, c)
       /\ chan' = [chan EXCEPT ![c] =
                      Uninvite([@ EXCEPT !.inviteonly = add], out)]
       /\ user' = [u \in Client |->
             IF u \in out THEN DropInvites(user[u], {c}) ELSE user[u]]
       /\ UNCHANGED <<alive, count, orphans>>

\* Slip: off by one in the value set.
ModeLimitOneMore(by, c, limit) ==
    /\ Does("MODE l")
    /\ MayChange(by, c)
    /\ chan' = [chan EXCEPT ![c].limit = limit + 1]
    /\ UNCHANGED <<user, alive, count, orphans>>

ModeLimit(by, c, limit) ==
    /\ Does("MODE l")
    /\ MayChange(by, c)
    /\ chan' = [chan EXCEPT ![c].limit = limit]
    /\ UNCHANGED <<user, alive, count, orphans>>

\* MODE +j and -j by a local operator of the server, member or not.  -j frees
\* a channel that nobody is on.
ModeJupe(by, c, add) ==
    LET dead == ~add /\ chan[c].users = 0
        ch == [chan[c] EXCEPT !.juped = add]
    IN /\ Does("MODE j")
       /\ by \in alive \cap Local /\ user[by].oper
       /\ chan[c].exists
       /\ chan' = [chan EXCEPT ![c] = IF dead THEN Sub1FromChannel(ch) ELSE ch]
       /\ user' = [u \in Client |->
             IF dead /\ u \in chan[c].invites THEN DropInvites(user[u], {c})
             ELSE user[u]]
       /\ count' = IF dead THEN count - 1 ELSE count
       /\ orphans' = IF dead THEN orphans \cup chan[c].invex ELSE orphans
       /\ UNCHANGED alive

ListOf(ch, kind) ==
    CASE kind = "b" -> ch.ban
      [] kind = "e" -> ch.exempt
      [] kind = "I" -> ch.invex

\* Slip: the check for a mask that is on the list is gone.
AddIdAllowedAgain(by, ch, kind, m) ==
    by \in Local => ch.numbed < MaxBans

\* add_id: a full channel, and a mask that one on the list matches, refuse a
\* local client; for a remote one only the same mask is not added again.
AddIdAllowed(by, ch, kind, m) ==
    IF by \in Local
    THEN /\ ch.numbed < MaxBans
         /\ ~\E x \in ListOf(ch, kind) : m \in Covers[x]
    ELSE m \notin ListOf(ch, kind)

SetList(ch, kind, S, n) ==
    [ch EXCEPT !.ban = IF kind = "b" THEN S ELSE @,
               !.exempt = IF kind = "e" THEN S ELSE @,
               !.invex = IF kind = "I" THEN S ELSE @,
               !.numbed = n]

AddMask(by, c, kind, m) ==
    /\ Does(kind)
    /\ MayChange(by, c)
    /\ AddIdAllowed(by, chan[c], kind, m)
    /\ chan' = [chan EXCEPT ![c] =
          SetList(@, kind, ListOf(@, kind) \cup {m}, @.numbed + 1)]
    /\ UNCHANGED <<user, alive, count, orphans>>

\* del_id
DelMask(by, c, kind, m) ==
    /\ Does(kind)
    /\ MayChange(by, c)
    /\ m \in ListOf(chan[c], kind)
    /\ chan' = [chan EXCEPT ![c] =
          SetList(@, kind, ListOf(@, kind) \ {m},
                  IF @.numbed > 0 THEN @.numbed - 1 ELSE 0)]
    /\ UNCHANGED <<user, alive, count, orphans>>

\* A rehash with a new Q line for the channel, or without its old one.
RehashJupe(c, on) ==
    /\ Does("REHASH")
    /\ chan[c].juped # on
    /\ chan' = [chan EXCEPT ![c] =
          [(IF chan[c].exists THEN chan[c] ELSE NewChan) EXCEPT !.juped = on]]
    /\ count' = IF chan[c].exists THEN count ELSE count + 1
    /\ UNCHANGED <<user, alive, orphans>>

-----------------------------------------------------------------------------

Init ==
    /\ chan = [c \in Channel |-> NoChan]
    /\ user = [u \in Client |-> NewUser]
    /\ alive = {}
    /\ count = 0
    /\ orphans = {}

SjoinStep ==
    \E us \in SUBSET (alive \ Local), c \in Channel, opped \in BOOLEAN,
       wins \in {"theirs", "ours", "both"}, plusI \in BOOLEAN,
       limit \in Limits :
           Sjoin(us, c, opped, wins, plusI, limit)

ModeStep ==
    \E by \in Client, c \in Channel :
        \/ \E add \in BOOLEAN : \/ ModeInviteOnly(by, c, add)
                                \/ ModeJupe(by, c, add)
                                \/ \E u \in Client : ModeOp(by, u, c, add)
        \/ \E limit \in Limits : ModeLimit(by, c, limit)
        \/ \E kind \in {"b", "e", "I"}, m \in Mask :
              AddMask(by, c, kind, m) \/ DelMask(by, c, kind, m)

Next ==
    \/ \E u \in Client :
          Register(u) \/ Oper(u) \/ Deoper(u) \/ ExitOneClient(u)
            \/ PartAll(u)
    \/ \E u \in Client, c \in Channel :
          Join(u, c) \/ Part(u, c)
    \/ \E by \in Client, u \in Client, c \in Channel :
          Kick(by, u, c) \/ Invite(by, u, c)
    \/ SjoinStep
    \/ ModeStep
    \/ \E c \in Channel, on \in BOOLEAN : RehashJupe(c, on)

Spec == Init /\ [][Next]_vars

-----------------------------------------------------------------------------
(* Properties                                                              *)

\* Every variable has its type.
TypeOK ==
    /\ chan \in [Channel -> Chan]
    /\ user \in [Client -> UserRec]
    /\ alive \subseteq Client
    /\ count \in Int
    /\ orphans \subseteq Mask

\* A client has a link to a channel exactly if the channel has one to the
\* client, the channel is allocated and the client is registered
\* (add_user_to_channel, remove_user_from_channel, exit_one_client).
MembersAgree ==
    \A u \in Client, c \in Channel :
        /\ u \in chan[c].members <=> c \in user[u].channel
        /\ u \in chan[c].members => u \in alive /\ chan[c].exists
        /\ u \in chan[c].ops => u \in chan[c].members

\* chptr->users, user->joined and Count.chan count what they are to count,
\* so a channel is freed when its last member leaves and never before
\* (sub1_from_channel), and the limits of +l and MAXCHANNELSPERUSER hold.
CountsAgree ==
    /\ \A c \in Channel : chan[c].users = Cardinality(chan[c].members)
    /\ \A u \in Client : user[u].joined = Cardinality(user[u].channel)
    /\ count = Cardinality({c \in Channel : chan[c].exists})

\* The two halves of an invitation come and go together, and no client that
\* exited and no channel that was freed is left in one: can_join would admit
\* through a stale half and sub1_from_channel follow a freed client
\* (add_invite, del_invite, sub1_from_channel, -i, exit_one_client).
InvitesAgree ==
    \A u \in Client, c \in Channel :
        /\ u \in chan[c].invites <=> c \in Invited(user[u].invited)
        /\ u \in chan[c].invites => u \in alive \cap Local /\ chan[c].exists

\* An invitation is used up by the JOIN it admits, and nobody is invited
\* where he is or where nobody is (m_join, m_invite, sub1_from_channel).
InvitesPending ==
    \A u \in Client, c \in Channel : u \in chan[c].invites =>
        /\ u \notin chan[c].members
        /\ chan[c].members # {}

\* user->invited stays a list, at most MAXCHANNELSPERUSER long (add_invite).
InvitesBounded ==
    \A u \in Client :
        LET inv == user[u].invited IN
        /\ Cardinality(Invited(inv)) <= MaxChannels
        /\ inv \subseteq Invited(inv) \X Invited(inv)
        /\ \A a, b \in Invited(inv) :
              /\ <<a, b>> \in inv \/ <<b, a>> \in inv
              /\ <<a, b>> \in inv /\ <<b, a>> \in inv => a = b

\* num_bed is the length of the three lists together, so MAXBANS is a limit
\* on what local clients add (add_id, del_id, free_bans_exceptions_denies).
MasksCounted ==
    \A c \in Channel :
        chan[c].numbed = Cardinality(chan[c].ban) + Cardinality(chan[c].exempt)
                           + Cardinality(chan[c].invex)

\* What _free_user checks: a client that exited has left nothing behind.
CleanExit ==
    \A u \in Client \ alive :
        user[u].channel = {} /\ user[u].joined = 0 /\ user[u].invited = {}

\* Only an SJOIN takes a channel past its +l: when a local client enters, the
\* members there really are, whatever the counter says, are within the limit
\* (can_join).
LocalJoinWithinLimit ==
    [][\A c \in Channel :
          /\ chan[c].exists /\ chan[c].limit # 0
          /\ (chan'[c].members \ chan[c].members) \cap Local # {}
          => Cardinality(chan'[c].members) <= chan[c].limit]_vars

\* No command and no exit lets the links, the counters and the leavings of
\* members and channels come apart (channel.c, exit_one_client).
ListsAgree == TypeOK /\ MembersAgree /\ CountsAgree /\ CleanExit

\* An invitation is whole, and is one to a channel the client may still enter
\* (add_invite, del_invite, m_join).
InvitesSound == InvitesAgree /\ InvitesPending

\* The lists with a limit keep it and are counted right (add_invite, add_id).
ListsBounded == InvitesBounded /\ MasksCounted
=============================================================================
