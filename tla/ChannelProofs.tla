---------------------------- MODULE ChannelProofs ----------------------------
(***************************************************************************)
(* Proofs that the lists and counters of Channel agree, for any number of  *)
(* clients, channels and masks.                                            *)
(*                                                                         *)
(* MembersAgree, InvitesAgree and InvitesPending speak of one client and   *)
(* one channel at a time; together they are PairOK.  They are inductive    *)
(* with the counters, because sub1_from_channel looks at a counter to see  *)
(* that a channel is empty, and with Shape, which says that a list of      *)
(* invitations orders nothing but its own channels.                        *)
(*                                                                         *)
(* On top of that, masks are counted, because a step replaces a channel by *)
(* one with the same masks or frees it with them; a list of invitations is *)
(* an order (Lists), whose first element add_invite can then drop; and the *)
(* exact counter is what can_join compares with the limit.                 *)
(***************************************************************************)
EXTENDS Channel, FiniteSetTheorems, TLAPS

PairOK(u, c) ==
    /\ u \in chan[c].members <=> c \in user[u].channel
    /\ u \in chan[c].members => u \in alive /\ chan[c].exists
    /\ u \in chan[c].ops => u \in chan[c].members
    /\ u \in chan[c].invites <=> c \in Invited(user[u].invited)
    /\ u \in chan[c].invites => /\ u \in alive \cap Local /\ chan[c].exists
                                /\ u \notin chan[c].members
                                /\ chan[c].members # {}

Pairs == \A u \in Client, c \in Channel : PairOK(u, c)

UsersRight == \A c \in Channel : chan[c].users = Cardinality(chan[c].members)

JoinedRight == \A u \in Client : user[u].joined = Cardinality(user[u].channel)

Existing == {c \in Channel : chan[c].exists}

CountRight == count = Cardinality(Existing)

Ordered(inv) == inv \subseteq Invited(inv) \X Invited(inv)

Shape == \A u \in Client : Ordered(user[u].invited)

IndInv ==
    TypeOK /\ Pairs /\ UsersRight /\ JoinedRight /\ CountRight /\ Shape

-----------------------------------------------------------------------------
(* Lists of invitations                                                    *)

\* del_invite takes exactly the channels of cs off the list.
LEMMA InvitedWithout ==
    ASSUME NEW inv \in SUBSET (Channel \X Channel), NEW cs
    PROVE  /\ Without(inv, cs) \in SUBSET (Channel \X Channel)
           /\ Invited(Without(inv, cs)) = Invited(inv) \ cs
           /\ Ordered(inv) => Ordered(Without(inv, cs))
<1>1. Without(inv, cs) \in SUBSET (Channel \X Channel)
  BY DEF Without
<1>2. Invited(Without(inv, cs)) = Invited(inv) \ cs
  BY DEF Invited, Without
<1>3. Ordered(inv) => Ordered(Without(inv, cs))
  BY <1>2 DEF Ordered, Without
<1> QED
  BY <1>1, <1>2, <1>3

\* add_invite puts exactly one more channel on it.
LEMMA InvitedWithLast ==
    ASSUME NEW inv \in SUBSET (Channel \X Channel), NEW c \in Channel
    PROVE  /\ WithLast(inv, c) \in SUBSET (Channel \X Channel)
           /\ Invited(WithLast(inv, c)) = Invited(inv) \cup {c}
           /\ Ordered(inv) => Ordered(WithLast(inv, c))
<1>1. Invited(inv) \subseteq Channel
  BY DEF Invited
<1>2. WithLast(inv, c) \in SUBSET (Channel \X Channel)
  BY <1>1 DEF WithLast
<1>3. ASSUME NEW d \in Channel
      PROVE  <<d, d>> \in WithLast(inv, c) <=> <<d, d>> \in inv \/ d = c
  BY <1>1 DEF WithLast
<1>4. Invited(WithLast(inv, c)) = Invited(inv) \cup {c}
  BY <1>3 DEF Invited
<1>5. Ordered(inv) => Ordered(WithLast(inv, c))
  BY <1>4 DEF Ordered, WithLast
<1> QED
  BY <1>2, <1>4, <1>5

-----------------------------------------------------------------------------
(* What the operations on one structure do to its fields                   *)

LEMMA NoChanFields ==
    /\ NoChan \in Chan /\ NewChan \in Chan
    /\ ~NoChan.exists /\ NoChan.members = {} /\ NoChan.users = 0
    /\ NoChan.ops = {} /\ NoChan.invites = {}
    /\ NewChan.exists /\ NewChan.members = {} /\ NewChan.users = 0
    /\ NewChan.ops = {} /\ NewChan.invites = {}
<1>1. NoChan \in Chan
  BY MaskAssumption DEF NoChan, Chan
<1>2. ASSUME NEW ch \in Chan PROVE [ch EXCEPT !.exists = TRUE] \in Chan
  BY DEF Chan
<1>3. NewChan \in Chan
  BY <1>1, <1>2 DEF NewChan
<1>4. /\ ~NoChan.exists /\ NoChan.members = {} /\ NoChan.users = 0
      /\ NoChan.ops = {} /\ NoChan.invites = {}
  BY DEF NoChan
<1>5. /\ NewChan.exists /\ NewChan.members = {} /\ NewChan.users = 0
      /\ NewChan.ops = {} /\ NewChan.invites = {}
  BY DEF NoChan, NewChan
<1> QED
  BY <1>1, <1>3, <1>4, <1>5

LEMMA UninviteFields ==
    ASSUME NEW ch \in Chan, NEW us
    PROVE  /\ Uninvite(ch, us) \in Chan
           /\ Uninvite(ch, us).exists = ch.exists
           /\ Uninvite(ch, us).members = ch.members
           /\ Uninvite(ch, us).users = ch.users
           /\ Uninvite(ch, us).ops = ch.ops
           /\ Uninvite(ch, us).invites = ch.invites \ us
  BY DEF Uninvite, Chan

LEMMA AddUserFields ==
    ASSUME NEW ch \in Chan, NEW us \in SUBSET Client, NEW os \in SUBSET Client,
           NEW r, r = AddUserToChannel(ch, us, os), Cardinality(us) \in Nat
    PROVE  /\ r \in Chan
           /\ r.exists = ch.exists
           /\ r.members = ch.members \cup us
           /\ r.users = ch.users + Cardinality(us)
           /\ r.ops = ch.ops \cup os
           /\ r.invites = ch.invites
<1>1. ASSUME NEW n \in Int
      PROVE  LET q == [ch EXCEPT !.members = @ \cup us, !.users = n,
                                 !.ops = @ \cup os]
             IN /\ q \in Chan /\ q.exists = ch.exists
                /\ q.members = ch.members \cup us /\ q.users = n
                /\ q.ops = ch.ops \cup os /\ q.invites = ch.invites
  BY DEF Chan
<1>2. ch.users + Cardinality(us) \in Int
  BY DEF Chan
<1> QED
  BY <1>1, <1>2 DEF AddUserToChannel

LEMMA Sub1Fields ==
    ASSUME NEW ch \in Chan, NEW r, r = Sub1FromChannel(ch)
    PROVE  /\ r \in Chan
           /\ ch.users > 1 =>
                /\ r.exists = ch.exists /\ r.members = ch.members
                /\ r.users = ch.users - 1 /\ r.ops = ch.ops
                /\ r.invites = ch.invites
           /\ ch.users <= 1 /\ ch.juped =>
                /\ r.exists = ch.exists /\ r.members = ch.members
                /\ r.users = 0 /\ r.ops = ch.ops /\ r.invites = {}
           /\ ch.users <= 1 /\ ~ch.juped => r = NoChan
<1>1. ch.users \in Int /\ ch.juped \in BOOLEAN
  BY DEF Chan
<1>2. ASSUME NEW n \in Int, NEW S \in SUBSET Client,
             r = [ch EXCEPT !.users = n, !.invites = S]
      PROVE  /\ r \in Chan /\ r.exists = ch.exists
             /\ r.members = ch.members /\ r.users = n
             /\ r.ops = ch.ops /\ r.invites = S
  BY <1>2 DEF Chan
<1>3. ASSUME NEW n \in Int
      PROVE  LET q == [ch EXCEPT !.users = n]
             IN /\ q \in Chan /\ q.exists = ch.exists
                /\ q.members = ch.members /\ q.users = n
                /\ q.ops = ch.ops /\ q.invites = ch.invites
  BY DEF Chan
<1>4. CASE ch.users > 1
  <2>1. ch.users - 1 \in Int /\ ch.users - 1 > 0
    BY <1>1, <1>4
  <2>2. r = [ch EXCEPT !.users = ch.users - 1]
    BY <2>1 DEF Sub1FromChannel
  <2> QED
    BY <2>1, <2>2, <1>3, <1>1, <1>4
<1>5. CASE ch.users <= 1 /\ ch.juped
  <2>1. ~(ch.users - 1 > 0)
    BY <1>1, <1>5
  <2>2. r = [ch EXCEPT !.users = 0, !.invites = {}]
    BY <2>1, <1>5 DEF Sub1FromChannel
  <2>3. 0 \in Int /\ {} \in SUBSET Client
    OBVIOUS
  <2>4. /\ r \in Chan /\ r.exists = ch.exists
        /\ r.members = ch.members /\ r.users = 0
        /\ r.ops = ch.ops /\ r.invites = {}
    BY <1>2, <2>2, <2>3, Zenon
  <2> QED
    BY <2>4, <1>1, <1>5
<1>6. CASE ch.users <= 1 /\ ~ch.juped
  <2>1. ~(ch.users - 1 > 0)
    BY <1>1, <1>6
  <2>2. r = NoChan
    BY <2>1, <1>6 DEF Sub1FromChannel
  <2> QED
    BY <2>2, <1>1, <1>6, NoChanFields
<1> QED
  BY <1>1, <1>4, <1>5, <1>6

LEMMA RemoveFields ==
    ASSUME NEW ch \in Chan, NEW u, NEW r, r = RemoveMember(ch, u)
    PROVE  /\ r \in Chan
           /\ ch.users > 1 =>
                /\ r.exists = ch.exists /\ r.members = ch.members \ {u}
                /\ r.users = ch.users - 1 /\ r.ops = ch.ops \ {u}
                /\ r.invites = ch.invites
           /\ ch.users <= 1 /\ ch.juped =>
                /\ r.exists = ch.exists /\ r.members = ch.members \ {u}
                /\ r.users = 0 /\ r.ops = ch.ops \ {u} /\ r.invites = {}
           /\ ch.users <= 1 /\ ~ch.juped => r = NoChan
<1> DEFINE q == [ch EXCEPT !.members = @ \ {u}, !.ops = @ \ {u}]
<1>1. /\ q \in Chan /\ q.exists = ch.exists /\ q.users = ch.users
      /\ q.juped = ch.juped /\ q.invites = ch.invites
      /\ q.members = ch.members \ {u} /\ q.ops = ch.ops \ {u}
  BY DEF Chan
<1>2. r = Sub1FromChannel(q)
  BY DEF RemoveMember
<1> HIDE DEF q
<1> QED
  BY <1>1, <1>2, Sub1Fields

LEMMA UserFields ==
    ASSUME NEW r \in UserRec
    PROVE  /\ \A c \in Channel :
                /\ AddChannel(r, c) \in UserRec
                /\ AddChannel(r, c).channel = r.channel \cup {c}
                /\ AddChannel(r, c).joined = r.joined + 1
                /\ AddChannel(r, c).invited = r.invited
           /\ \A cs : DropInvites(r, cs) \in UserRec
           /\ \A cs : DropInvites(r, cs).channel = r.channel
           /\ \A cs : DropInvites(r, cs).joined = r.joined
           /\ \A cs : DropInvites(r, cs).invited = Without(r.invited, cs)
           /\ \A cs : Cardinality(cs) \in Nat =>
                /\ LeaveChannels(r, cs) \in UserRec
                /\ LeaveChannels(r, cs).channel = r.channel \ cs
                /\ LeaveChannels(r, cs).joined = r.joined - Cardinality(cs)
                /\ LeaveChannels(r, cs).invited = r.invited
<1>0. ASSUME NEW S \in SUBSET Channel, NEW n \in Int
      PROVE  LET q == [r EXCEPT !.channel = S, !.joined = n]
             IN /\ q \in UserRec /\ q.channel = S /\ q.joined = n
                /\ q.invited = r.invited
  BY DEF UserRec
<1>1. ASSUME NEW c \in Channel
      PROVE  /\ AddChannel(r, c) \in UserRec
             /\ AddChannel(r, c).channel = r.channel \cup {c}
             /\ AddChannel(r, c).joined = r.joined + 1
             /\ AddChannel(r, c).invited = r.invited
  <2>1. r.channel \cup {c} \in SUBSET Channel /\ r.joined + 1 \in Int
    BY DEF UserRec
  <2> QED
    BY <2>1, <1>0 DEF AddChannel
<1>2. ASSUME NEW cs
      PROVE  /\ DropInvites(r, cs) \in UserRec
             /\ DropInvites(r, cs).channel = r.channel
             /\ DropInvites(r, cs).joined = r.joined
             /\ DropInvites(r, cs).invited = Without(r.invited, cs)
  BY InvitedWithout DEF DropInvites, UserRec
<1>3. ASSUME NEW cs, Cardinality(cs) \in Nat
      PROVE  /\ LeaveChannels(r, cs) \in UserRec
             /\ LeaveChannels(r, cs).channel = r.channel \ cs
             /\ LeaveChannels(r, cs).joined = r.joined - Cardinality(cs)
             /\ LeaveChannels(r, cs).invited = r.invited
  <2>1. /\ r.channel \ cs \in SUBSET Channel
        /\ r.joined - Cardinality(cs) \in Int
    BY <1>3 DEF UserRec
  <2> QED
    BY <2>1, <1>0 DEF LeaveChannels
<1> QED
  BY <1>1, <1>2, <1>3

-----------------------------------------------------------------------------
(* Counting                                                                *)

LEMMA ClientsFinite ==
    ASSUME NEW S \in SUBSET Client
    PROVE  IsFiniteSet(S) /\ Cardinality(S) \in Nat
<1>1. IsFiniteSet(S)
  BY FS_Subset, ClientAssumption
<1> QED
  BY <1>1, FS_CardinalityType

LEMMA ChannelsFinite ==
    ASSUME NEW S \in SUBSET Channel
    PROVE  IsFiniteSet(S) /\ Cardinality(S) \in Nat
<1>1. IsFiniteSet(S)
  BY FS_Subset, ChannelAssumption
<1> QED
  BY <1>1, FS_CardinalityType

\* A counter of 1 or less leaves nobody but u.
LEMMA CountOne ==
    ASSUME NEW S \in SUBSET Client, NEW u \in S
    PROVE  /\ Cardinality(S \ {u}) = Cardinality(S) - 1
           /\ Cardinality(S) >= 1
           /\ Cardinality(S) <= 1 => S = {u}
           /\ Cardinality(S) > 1 => S \ {u} # {}
<1>1. IsFiniteSet(S) /\ Cardinality(S) \in Nat
  BY ClientsFinite
<1>2. IsFiniteSet(S \ {u}) /\ Cardinality(S \ {u}) = Cardinality(S) - 1
  BY <1>1, FS_RemoveElement
<1>3. Cardinality(S \ {u}) \in Nat
  BY <1>2, FS_CardinalityType
<1>4. Cardinality(S \ {u}) = 0 <=> S \ {u} = {}
  BY <1>2, FS_EmptySet
<1>5. S \ {u} = {} => S = {u}
  OBVIOUS
<1> QED
  BY <1>1, <1>2, <1>3, <1>4, <1>5

LEMMA CountLess ==
    ASSUME NEW S \in SUBSET Channel, NEW T \in SUBSET S
    PROVE  Cardinality(S \ T) = Cardinality(S) - Cardinality(T)
<1>1. S \cap T = T
  OBVIOUS
<1>2. IsFiniteSet(S)
  BY ChannelsFinite
<1> QED
  BY <1>1, <1>2, FS_Difference

LEMMA FreedType ==
    ASSUME TypeOK, NEW cs \in SUBSET Channel
    PROVE  Freed(cs) \in SUBSET Channel /\ LostMasks(cs) \in SUBSET Mask
<1>1. Freed(cs) \in SUBSET Channel
  BY DEF Freed
<1> QED
  BY <1>1 DEF LostMasks, TypeOK, Chan

-----------------------------------------------------------------------------
(* Leaving channels                                                        *)

\* What remove_user_from_channel does to a channel that u is on.
LEMMA LeftChannel ==
    ASSUME IndInv, NEW u \in Client, NEW c \in Channel, c \in user[u].channel,
           NEW r, r = RemoveMember(chan[c], u)
    PROVE  /\ r \in Chan
           /\ r.members = chan[c].members \ {u}
           /\ r.users = Cardinality(r.members)
           /\ r.ops = chan[c].ops \ {u}
           /\ r.invites = IF chan[c].users <= 1 THEN {} ELSE chan[c].invites
           /\ chan[c].users > 1 => r.members # {}
           /\ r.exists <=> ~(chan[c].users <= 1 /\ ~chan[c].juped)
<1> DEFINE ch == chan[c]
<1>1. ch \in Chan
  BY DEF IndInv, TypeOK
<1>2. /\ ch.users \in Int /\ ch.members \in SUBSET Client /\ ch.juped \in BOOLEAN
      /\ ch.ops \in SUBSET Client /\ ch.exists \in BOOLEAN
  BY <1>1 DEF Chan
<1>3. PairOK(u, c) /\ \A v \in Client : PairOK(v, c)
  BY DEF IndInv, Pairs
<1>4. u \in ch.members /\ ch.exists /\ ch.ops \subseteq ch.members
  <2>1. u \in ch.members /\ ch.exists
    BY <1>3 DEF PairOK
  <2>2. ASSUME NEW v \in Client, v \in ch.ops PROVE v \in ch.members
    BY <1>3, <2>2 DEF PairOK
  <2> QED
    BY <1>2, <2>1, <2>2
<1>5. ch.users = Cardinality(ch.members)
  BY DEF IndInv, UsersRight
<1>6. /\ Cardinality(ch.members \ {u}) = ch.users - 1
      /\ ch.users <= 1 => ch.members = {u}
      /\ ch.users > 1 => ch.members \ {u} # {}
      /\ ch.users >= 1
  <2> DEFINE S == ch.members
  <2>1. S \in SUBSET Client /\ u \in S
    BY <1>2, <1>4
  <2>2. /\ Cardinality(S \ {u}) = Cardinality(S) - 1
        /\ Cardinality(S) >= 1
        /\ Cardinality(S) <= 1 => S = {u}
        /\ Cardinality(S) > 1 => S \ {u} # {}
    <3> HIDE DEF S
    <3> QED BY <2>1, CountOne
  <2> QED
    BY <2>2, <1>5
<1>7. r = RemoveMember(ch, u)
  OBVIOUS
<1> HIDE DEF ch
<1>8. CASE ch.users > 1
  <2>1. /\ r \in Chan /\ r.members = ch.members \ {u} /\ r.users = ch.users - 1
        /\ r.ops = ch.ops \ {u} /\ r.invites = ch.invites /\ r.exists = ch.exists
    BY <1>1, <1>7, <1>8, RemoveFields
  <2>2. Cardinality(r.members) = ch.users - 1 /\ ~(ch.users <= 1)
    BY <1>2, <1>6, <1>8, <2>1
  <2> QED
    BY <2>1, <2>2, <1>4, <1>6, <1>8 DEF ch
<1>9. CASE ch.users <= 1 /\ ch.juped
  <2>1. /\ r \in Chan /\ r.members = ch.members \ {u} /\ r.users = 0
        /\ r.ops = ch.ops \ {u} /\ r.invites = {} /\ r.exists = ch.exists
    BY <1>1, <1>7, <1>9, RemoveFields
  <2>2. Cardinality(r.members) = 0
    BY <1>2, <1>6, <1>9, <2>1
  <2> QED
    BY <2>1, <2>2, <1>2, <1>4, <1>9 DEF ch
<1>10. CASE ch.users <= 1 /\ ~ch.juped
  <2>1. r = NoChan
    BY <1>1, <1>7, <1>10, RemoveFields
  <2>2. ch.members \ {u} = {} /\ ch.ops \ {u} = {}
    BY <1>2, <1>4, <1>6, <1>10
  <2>3. Cardinality({}) = 0
    BY FS_EmptySet
  <2> QED
    BY <2>1, <2>2, <2>3, <1>2, <1>10, NoChanFields DEF ch
<1> QED
  BY <1>2, <1>8, <1>9, <1>10

\* The client's side of leaving the channels cs.
LEMMA LeftUser ==
    ASSUME NEW r \in UserRec, NEW cs \in SUBSET r.channel,
           r.joined = Cardinality(r.channel), Ordered(r.invited), NEW S,
           NEW q, q = DropInvites(LeaveChannels(r, cs), S)
    PROVE  /\ q \in UserRec
           /\ q.channel = r.channel \ cs
           /\ q.joined = Cardinality(q.channel)
           /\ Invited(q.invited) = Invited(r.invited) \ S
           /\ Ordered(q.invited)
<1>1. r.channel \in SUBSET Channel /\ r.invited \in SUBSET (Channel \X Channel)
  BY DEF UserRec
<1>2. Cardinality(cs) \in Nat
  BY <1>1, ChannelsFinite
<1>3. Cardinality(r.channel \ cs) = Cardinality(r.channel) - Cardinality(cs)
  BY <1>1, CountLess
<1> DEFINE p == LeaveChannels(r, cs)
<1>4. /\ p \in UserRec /\ p.channel = r.channel \ cs
      /\ p.joined = r.joined - Cardinality(cs) /\ p.invited = r.invited
  BY <1>2, UserFields
<1>0. q = DropInvites(p, S)
  OBVIOUS
<1> HIDE DEF p
<1>5. /\ q \in UserRec /\ q.channel = p.channel /\ q.joined = p.joined
      /\ q.invited = Without(p.invited, S)
  BY <1>0, <1>4, UserFields
<1>6. Invited(q.invited) = Invited(r.invited) \ S /\ Ordered(q.invited)
  BY <1>1, <1>4, <1>5, InvitedWithout
<1> QED
  BY <1>3, <1>4, <1>5, <1>6

\* The side of a client that is only uninvited.
LEMMA DroppedUser ==
    ASSUME NEW r \in UserRec, Ordered(r.invited), NEW S,
           NEW q, q = DropInvites(r, S)
    PROVE  /\ q \in UserRec
           /\ q.channel = r.channel
           /\ q.joined = r.joined
           /\ Invited(q.invited) = Invited(r.invited) \ S
           /\ Ordered(q.invited)
<1>1. r.invited \in SUBSET (Channel \X Channel)
  BY DEF UserRec
<1>2. /\ q \in UserRec /\ q.channel = r.channel /\ q.joined = r.joined
      /\ q.invited = Without(r.invited, S)
  BY UserFields
<1>3. Invited(q.invited) = Invited(r.invited) \ S /\ Ordered(q.invited)
  BY <1>1, <1>2, InvitedWithout
<1> QED
  BY <1>2, <1>3

\* PART, KICK and JOIN 0.
LEMMA RemoveFromOK ==
    ASSUME IndInv, NEW u \in Client, NEW cs \in SUBSET user[u].channel,
           RemoveFrom(u, cs), UNCHANGED alive
    PROVE  IndInv'
<1>1. TypeOK /\ Pairs /\ UsersRight /\ JoinedRight /\ CountRight /\ Shape
  BY DEF IndInv
<1>2. /\ \A c \in Channel : chan[c] \in Chan
      /\ \A v \in Client : user[v] \in UserRec
      /\ cs \in SUBSET Channel /\ user[u].channel \in SUBSET Channel
  <2>1. user[u] \in UserRec
    BY <1>1 DEF TypeOK
  <2> QED
    BY <1>1, <2>1 DEF TypeOK, UserRec
<1>3. ASSUME NEW c \in Channel, c \notin cs PROVE chan'[c] = chan[c]
  BY <1>3 DEF RemoveFrom
<1>4. ASSUME NEW c \in cs
      PROVE  /\ chan'[c] \in Chan
             /\ chan'[c].members = chan[c].members \ {u}
             /\ chan'[c].users = Cardinality(chan'[c].members)
             /\ chan'[c].ops = chan[c].ops \ {u}
             /\ chan'[c].invites = IF chan[c].users <= 1 THEN {}
                                   ELSE chan[c].invites
             /\ chan[c].users > 1 => chan'[c].members # {}
             /\ chan'[c].exists <=> ~(chan[c].users <= 1 /\ ~chan[c].juped)
  <2>1. c \in Channel /\ c \in user[u].channel
    BY <1>2
  <2>2. chan'[c] = RemoveMember(chan[c], u)
    BY <2>1 DEF RemoveFrom
  <2> QED
    BY <2>1, <2>2, LeftChannel
<1>5. ASSUME NEW v \in Client
      PROVE  /\ user'[v] \in UserRec
             /\ user'[v].channel = IF v = u THEN user[v].channel \ cs
                                   ELSE user[v].channel
             /\ user'[v].joined = Cardinality(user'[v].channel)
             /\ Invited(user'[v].invited) =
                   Invited(user[v].invited) \ Uninvited(v, cs)
             /\ Ordered(user'[v].invited)
  <2>1. /\ user[v] \in UserRec /\ Ordered(user[v].invited)
        /\ user[v].joined = Cardinality(user[v].channel)
    BY <1>1, <1>2 DEF Shape, JoinedRight
  <2>2. CASE v = u
    <3>1. user'[v] = DropInvites(LeaveChannels(user[v], cs), Uninvited(v, cs))
      BY <2>2 DEF RemoveFrom
    <3> QED
      BY <2>1, <2>2, <3>1, LeftUser
  <2>3. CASE v # u
    <3>1. user'[v] = DropInvites(user[v], Uninvited(v, cs))
      BY <2>3 DEF RemoveFrom
    <3>2. /\ user'[v] \in UserRec
          /\ user'[v].channel = user[v].channel
          /\ user'[v].joined = user[v].joined
          /\ Invited(user'[v].invited) =
                Invited(user[v].invited) \ Uninvited(v, cs)
          /\ Ordered(user'[v].invited)
      BY <2>1, <3>1, DroppedUser
    <3> QED
      BY <2>1, <2>3, <3>2
  <2> QED
    BY <2>2, <2>3
<1>6. TypeOK'
  <2>1. chan' \in [Channel -> Chan]
    <3>1. \A c \in Channel : chan'[c] \in Chan
      BY <1>2, <1>3, <1>4
    <3> QED
      BY <3>1 DEF RemoveFrom
  <2>2. user' \in [Client -> UserRec]
    BY <1>5 DEF RemoveFrom
  <2>3. Freed(cs) \in SUBSET Channel /\ LostMasks(cs) \in SUBSET Mask
    BY <1>1, <1>2, FreedType
  <2>4. Cardinality(Freed(cs)) \in Nat
    BY <2>3, ChannelsFinite
  <2>5. count' = count - Cardinality(Freed(cs)) /\ count \in Int
    BY <1>1 DEF RemoveFrom, TypeOK
  <2>6. orphans' = orphans \cup LostMasks(cs) /\ orphans \subseteq Mask
    BY <1>1 DEF RemoveFrom, TypeOK
  <2>7. alive' \subseteq Client
    BY <1>1 DEF TypeOK
  <2> QED
    BY <2>1, <2>2, <2>3, <2>4, <2>5, <2>6, <2>7 DEF TypeOK
<1>7. Pairs'
  <2> SUFFICES ASSUME NEW v \in Client, NEW c \in Channel PROVE PairOK(v, c)'
    BY DEF Pairs
  <2>1. PairOK(v, c)
    BY <1>1 DEF Pairs
  <2>2. CASE c \notin cs
    <3>1. c \notin Uninvited(v, cs)
      BY <2>2 DEF Uninvited
    <3>2. /\ c \in user'[v].channel <=> c \in user[v].channel
          /\ c \in Invited(user'[v].invited) <=> c \in Invited(user[v].invited)
      BY <1>5, <2>2, <3>1
    <3> QED
      BY <1>3, <2>1, <2>2, <3>2 DEF PairOK
  <2>3. CASE c \in cs
    <3>1. chan[c].users \in Int
      BY <1>2 DEF Chan
    <3>2. c \in Uninvited(v, cs) <=> chan[c].users <= 1 /\ v \in chan[c].invites
      BY <2>3, <3>1 DEF Uninvited
    <3>3. /\ c \in user'[v].channel <=> c \in user[v].channel /\ v # u
          /\ c \in Invited(user'[v].invited) <=>
                c \in Invited(user[v].invited)
                /\ ~(chan[c].users <= 1 /\ v \in chan[c].invites)
      BY <1>5, <2>3, <3>2
    <3>4. v \in chan'[c].members => chan[c].users > 1
      <4>1. chan'[c].members # {} => chan'[c].users # 0
        <5>1. chan'[c].members \in SUBSET Client
          BY <1>4, <2>3 DEF Chan
        <5>2. IsFiniteSet(chan'[c].members)
          BY <5>1, ClientsFinite
        <5> QED
          BY <5>2, <1>4, <2>3, FS_EmptySet
      <4>2. u \in chan[c].members
        <5>1. PairOK(u, c) /\ c \in user[u].channel
          BY <1>1, <1>2, <2>3 DEF Pairs
        <5> QED
          BY <5>1 DEF PairOK
      <4>3. chan[c].members \in SUBSET Client
        BY <1>2 DEF Chan
      <4>4. chan[c].users = Cardinality(chan[c].members)
        BY <1>1 DEF UsersRight
      <4>5. chan[c].users <= 1 => chan[c].members = {u}
        BY <4>2, <4>3, <4>4, CountOne
      <4> QED
        BY <1>4, <2>3, <3>1, <4>5
    <3>5. v \in chan'[c].members <=> v \in chan[c].members /\ v # u
      BY <1>4, <2>3
    <3>6. v \in chan'[c].ops <=> v \in chan[c].ops /\ v # u
      BY <1>4, <2>3
    <3>7. v \in chan'[c].invites <=> v \in chan[c].invites /\ ~(chan[c].users <= 1)
      BY <1>4, <2>3
    <3>8. chan[c].users > 1 => chan'[c].members # {} /\ chan'[c].exists
      BY <1>4, <2>3, <3>1
    <3> QED
      BY <2>1, <3>1, <3>3, <3>4, <3>5, <3>6, <3>7, <3>8 DEF PairOK
  <2> QED
    BY <2>2, <2>3
<1>8. UsersRight'
  BY <1>1, <1>3, <1>4 DEF UsersRight
<1>9. JoinedRight' /\ Shape'
  BY <1>5 DEF JoinedRight, Shape
<1>10. CountRight'
  <2>1. ASSUME NEW c \in Channel
        PROVE  chan'[c].exists <=> chan[c].exists /\ c \notin Freed(cs)
    <3>1. CASE c \notin cs
      BY <1>3, <3>1 DEF Freed
    <3>2. CASE c \in cs
      <4>1. chan[c].users \in Int /\ PairOK(u, c) /\ c \in user[u].channel
        BY <1>1, <1>2, <3>2 DEF Pairs, Chan
      <4>2. chan[c].exists
        BY <4>1 DEF PairOK
      <4> QED
        BY <1>4, <3>2, <4>1, <4>2 DEF Freed
    <3> QED
      BY <3>1, <3>2
  <2>2. Existing' = Existing \ Freed(cs)
    BY <2>1 DEF Existing
  <2>3. Freed(cs) \subseteq Existing
    <3> SUFFICES ASSUME NEW c \in cs PROVE chan[c].exists
      BY <1>2 DEF Freed, Existing
    <3>1. PairOK(u, c) /\ c \in user[u].channel
      BY <1>1, <1>2 DEF Pairs
    <3> QED
      BY <3>1 DEF PairOK
  <2>4. Existing \in SUBSET Channel
    BY DEF Existing
  <2>5. Cardinality(Existing \ Freed(cs)) = Cardinality(Existing) - Cardinality(Freed(cs))
    BY <2>3, <2>4, CountLess
  <2>6. count' = count - Cardinality(Freed(cs))
    BY DEF RemoveFrom
  <2> QED
    BY <1>1, <2>2, <2>5, <2>6 DEF CountRight
<1> QED
  BY <1>6, <1>7, <1>8, <1>9, <1>10 DEF IndInv

-----------------------------------------------------------------------------
(* Changes of one channel                                                  *)

LEMMA ChanTypes ==
    ASSUME IndInv
    PROVE  /\ \A c \in Channel :
                /\ chan[c] \in Chan
                /\ chan[c].members \in SUBSET Client
                /\ chan[c].ops \in SUBSET chan[c].members
                /\ chan[c].invites \in SUBSET Client
                /\ chan[c].users \in Int /\ chan[c].exists \in BOOLEAN
                /\ chan[c].users = Cardinality(chan[c].members)
                /\ \A u \in Client : PairOK(u, c)
           /\ \A u \in Client :
                /\ user[u] \in UserRec
                /\ user[u].channel \in SUBSET Channel
                /\ user[u].invited \in SUBSET (Channel \X Channel)
                /\ user[u].joined = Cardinality(user[u].channel)
                /\ user[u].joined \in Int
                /\ Ordered(user[u].invited)
<1>1. TypeOK /\ Pairs /\ UsersRight /\ JoinedRight /\ Shape
  BY DEF IndInv
<1>2. ASSUME NEW c \in Channel
      PROVE  /\ chan[c] \in Chan
             /\ chan[c].members \in SUBSET Client
             /\ chan[c].ops \in SUBSET chan[c].members
             /\ chan[c].invites \in SUBSET Client
             /\ chan[c].users \in Int /\ chan[c].exists \in BOOLEAN
             /\ chan[c].users = Cardinality(chan[c].members)
             /\ \A u \in Client : PairOK(u, c)
  <2>1. chan[c] \in Chan
    BY <1>1 DEF TypeOK
  <2>2. /\ chan[c].members \in SUBSET Client /\ chan[c].ops \in SUBSET Client
        /\ chan[c].invites \in SUBSET Client
        /\ chan[c].users \in Int /\ chan[c].exists \in BOOLEAN
    BY <2>1 DEF Chan
  <2>3. \A u \in Client : PairOK(u, c)
    BY <1>1 DEF Pairs
  <2>4. ASSUME NEW u \in Client, u \in chan[c].ops PROVE u \in chan[c].members
    BY <2>3, <2>4 DEF PairOK
  <2> QED
    BY <1>1, <2>1, <2>2, <2>3, <2>4 DEF UsersRight
<1>3. ASSUME NEW u \in Client
      PROVE  /\ user[u] \in UserRec
             /\ user[u].channel \in SUBSET Channel
             /\ user[u].invited \in SUBSET (Channel \X Channel)
             /\ user[u].joined = Cardinality(user[u].channel)
             /\ user[u].joined \in Int
             /\ Ordered(user[u].invited)
  <2>1. user[u] \in UserRec
    BY <1>1 DEF TypeOK
  <2> QED
    BY <1>1, <2>1 DEF UserRec, JoinedRight, Shape
<1> QED
  BY <1>2, <1>3

\* One more channel, or one less, is one more or one less to count.
LEMMA CountChannels ==
    ASSUME IndInv, NEW c \in Channel,
           \A b \in Channel \ {c} : chan'[b].exists = chan[b].exists
    PROVE  /\ chan[c].exists = chan'[c].exists /\ count' = count => CountRight'
           /\ ~chan[c].exists /\ chan'[c].exists /\ count' = count + 1
                => CountRight'
           /\ chan[c].exists /\ ~chan'[c].exists /\ count' = count - 1
                => CountRight'
<1>1. Existing \in SUBSET Channel /\ count = Cardinality(Existing)
  BY DEF Existing, IndInv, CountRight
<1>2. IsFiniteSet(Existing) /\ Cardinality(Existing) \in Nat
  BY <1>1, ChannelsFinite
<1>3. chan[c].exists = chan'[c].exists => Existing' = Existing
  BY DEF Existing
<1>4. ~chan[c].exists /\ chan'[c].exists =>
         Existing' = Existing \cup {c} /\ c \notin Existing
  BY DEF Existing
<1>5. chan[c].exists /\ ~chan'[c].exists =>
         Existing' = Existing \ {c} /\ c \in Existing
  BY DEF Existing
<1>6. c \notin Existing => Cardinality(Existing \cup {c}) = Cardinality(Existing) + 1
  BY <1>2, FS_AddElement
<1>7. c \in Existing => Cardinality(Existing \ {c}) = Cardinality(Existing) - 1
  BY <1>2, FS_RemoveElement
<1> QED
  BY <1>1, <1>3, <1>4, <1>5, <1>6, <1>7 DEF CountRight

\* The conjuncts of IndInv', once every structure has been seen to.
LEMMA Assemble ==
    ASSUME chan' \in [Channel -> Chan], user' \in [Client -> UserRec],
           alive' \subseteq Client, orphans' \subseteq Mask,
           CountRight', Pairs',
           \A c \in Channel : chan'[c].users = Cardinality(chan'[c].members),
           \A u \in Client : /\ user'[u].joined = Cardinality(user'[u].channel)
                             /\ Ordered(user'[u].invited)
    PROVE  IndInv'
<1>1. Existing' \in SUBSET Channel
  BY DEF Existing
<1>2. count' \in Int
  BY <1>1, ChannelsFinite DEF CountRight
<1>3. TypeOK'
  BY <1>2 DEF TypeOK
<1>4. UsersRight' /\ JoinedRight' /\ Shape'
  BY DEF UsersRight, JoinedRight, Shape
<1> QED
  BY <1>3, <1>4 DEF IndInv

-----------------------------------------------------------------------------
(* Clients                                                                 *)

LEMMA NewUserFields ==
    /\ NewUser \in UserRec /\ NewUser.channel = {} /\ NewUser.joined = 0
    /\ NewUser.invited = {} /\ Invited(NewUser.invited) = {}
    /\ Ordered(NewUser.invited) /\ Cardinality(NewUser.channel) = 0
<1>1. /\ NewUser \in UserRec /\ NewUser.channel = {} /\ NewUser.joined = 0
      /\ NewUser.invited = {}
  BY DEF NewUser, UserRec
<1>2. Invited({}) = {}
  BY DEF Invited
<1>3. Ordered({})
  BY DEF Ordered
<1>4. Cardinality({}) = 0
  BY FS_EmptySet
<1> QED
  BY <1>1, <1>2, <1>3, <1>4

LEMMA RegisterOK ==
    ASSUME IndInv, NEW u \in Client, Register(u)
    PROVE  IndInv'
<1>1. TypeOK /\ Pairs /\ CountRight
  BY DEF IndInv
<1>2. /\ user \in [Client -> UserRec] /\ chan' = chan /\ count' = count
      /\ orphans' = orphans /\ alive' = alive \cup {u} /\ u \notin alive
      /\ user' = [user EXCEPT ![u] = NewUser]
      /\ chan \in [Channel -> Chan] /\ alive \subseteq Client
      /\ orphans \subseteq Mask
  BY <1>1 DEF Register, TypeOK
<1>3. user'[u] = NewUser /\ \A v \in Client : v # u => user'[v] = user[v]
  BY <1>2
<1>4. user' \in [Client -> UserRec]
  BY <1>2, NewUserFields
<1>5. Pairs'
  <2> SUFFICES ASSUME NEW v \in Client, NEW b \in Channel PROVE PairOK(v, b)'
    BY DEF Pairs
  <2>1. PairOK(v, b)
    BY <1>1 DEF Pairs
  <2>2. CASE v # u
    BY <2>1, <2>2, <1>2, <1>3 DEF PairOK
  <2>3. CASE v = u
    <3>1. v \notin chan[b].members /\ v \notin chan[b].invites /\ v \notin chan[b].ops
      BY <2>1, <2>3, <1>2 DEF PairOK
    <3>2. b \notin user'[v].channel /\ b \notin Invited(user'[v].invited)
      BY <2>3, <1>3, NewUserFields
    <3> QED
      BY <3>1, <3>2, <1>2 DEF PairOK
  <2> QED
    BY <2>2, <2>3
<1>6. Existing' = Existing
  BY <1>2 DEF Existing
<1>7. CountRight'
  BY <1>1, <1>2, <1>6 DEF CountRight
<1>8. \A v \in Client : /\ user'[v].joined = Cardinality(user'[v].channel)
                        /\ Ordered(user'[v].invited)
  BY <1>3, ChanTypes, NewUserFields
<1>9. \A b \in Channel : chan'[b].users = Cardinality(chan'[b].members)
  BY <1>2, ChanTypes
<1> QED
  BY <1>2, <1>4, <1>5, <1>7, <1>8, <1>9, Assemble

LEMMA OperOK ==
    ASSUME IndInv, NEW u \in Client, NEW on \in BOOLEAN,
           user' = [user EXCEPT ![u].oper = on],
           UNCHANGED <<chan, alive, count, orphans>>
    PROVE  IndInv'
<1>1. TypeOK /\ Pairs /\ CountRight
  BY DEF IndInv
<1>2. /\ user \in [Client -> UserRec] /\ chan \in [Channel -> Chan]
      /\ alive \subseteq Client /\ orphans \subseteq Mask
  BY <1>1 DEF TypeOK
<1>3. \A v \in Client :
        /\ user'[v] \in UserRec /\ user'[v].channel = user[v].channel
        /\ user'[v].joined = user[v].joined /\ user'[v].invited = user[v].invited
  BY <1>2 DEF UserRec
<1>4. user' \in [Client -> UserRec]
  BY <1>2, <1>3
<1>5. Pairs'
  <2> SUFFICES ASSUME NEW v \in Client, NEW b \in Channel PROVE PairOK(v, b)'
    BY DEF Pairs
  <2>1. PairOK(v, b)
    BY <1>1 DEF Pairs
  <2> QED
    BY <2>1, <1>3 DEF PairOK
<1>6. Existing' = Existing
  BY DEF Existing
<1>7. CountRight'
  BY <1>1, <1>6 DEF CountRight
<1>8. \A v \in Client : /\ user'[v].joined = Cardinality(user'[v].channel)
                        /\ Ordered(user'[v].invited)
  BY <1>3, ChanTypes
<1>9. \A b \in Channel : chan'[b].users = Cardinality(chan'[b].members)
  BY ChanTypes
<1> QED
  BY <1>2, <1>4, <1>5, <1>7, <1>8, <1>9, Assemble

-----------------------------------------------------------------------------
(* Entering a channel                                                      *)

\* A channel that is not allocated has no links.
LEMMA NothingThere ==
    ASSUME IndInv, NEW c \in Channel, ~chan[c].exists
    PROVE  /\ chan[c].members = {} /\ chan[c].ops = {} /\ chan[c].invites = {}
           /\ chan[c].users = 0
<1>1. ASSUME NEW v \in Client
      PROVE  v \notin chan[c].members /\ v \notin chan[c].invites
  <2>1. PairOK(v, c)
    BY ChanTypes
  <2> QED
    BY <2>1 DEF PairOK
<1>2. chan[c].members = {} /\ chan[c].ops = {} /\ chan[c].invites = {}
  BY <1>1, ChanTypes
<1>3. Cardinality({}) = 0
  BY FS_EmptySet
<1> QED
  BY <1>2, <1>3, ChanTypes

\* The clients of new enter; what they were invited to is either dropped or
\* was never there.
LEMMA EnterOK ==
    ASSUME IndInv, NEW c \in Channel, NEW d \in Chan,
           NEW new \in SUBSET alive,
           \A v \in new : c \notin user[v].channel,
           chan' = [chan EXCEPT ![c] = d],
           d.members = chan[c].members \cup new,
           d.users = Cardinality(d.members),
           d.ops \subseteq d.members, d.exists,
           \A v \in Client : v \in d.invites <=> v \in chan[c].invites /\ v \notin new,
           user' \in [Client -> UserRec],
           \A v \in Client :
              /\ user'[v].channel = IF v \in new THEN user[v].channel \cup {c}
                                    ELSE user[v].channel
              /\ user'[v].joined = IF v \in new THEN user[v].joined + 1
                                   ELSE user[v].joined
              /\ Ordered(user'[v].invited)
              /\ \A b \in Channel : b \in Invited(user'[v].invited) <=>
                    b \in Invited(user[v].invited) /\ ~(v \in new /\ b = c),
           count' = IF chan[c].exists THEN count ELSE count + 1,
           UNCHANGED <<alive, orphans>>
    PROVE  IndInv'
<1>1. TypeOK /\ Pairs /\ CountRight
  BY DEF IndInv
<1>2. /\ chan \in [Channel -> Chan] /\ alive \subseteq Client
      /\ orphans \subseteq Mask
  BY <1>1 DEF TypeOK
<1>3. chan' \in [Channel -> Chan] /\ chan'[c] = d
      /\ \A b \in Channel : b # c => chan'[b] = chan[b]
  BY <1>2
<1>4. Pairs'
  <2> SUFFICES ASSUME NEW v \in Client, NEW b \in Channel PROVE PairOK(v, b)'
    BY DEF Pairs
  <2>1. PairOK(v, b)
    BY <1>1 DEF Pairs
  <2>2. CASE b # c
    <3>1. chan'[b] = chan[b]
      BY <1>3, <2>2
    <3>2. b \in user'[v].channel <=> b \in user[v].channel
      <4>1. v \in new => user'[v].channel = user[v].channel \cup {c}
        OBVIOUS
      <4>2. v \notin new => user'[v].channel = user[v].channel
        OBVIOUS
      <4> QED
        BY <2>2, <4>1, <4>2
    <3>3. b \in Invited(user'[v].invited) <=> b \in Invited(user[v].invited)
      BY <2>2
    <3> QED
      BY <2>1, <3>1, <3>2, <3>3 DEF PairOK
  <2>3. CASE b = c
    <3>1. /\ v \in chan'[b].members <=> v \in chan[b].members \/ v \in new
          /\ v \in chan'[b].ops => v \in chan'[b].members
          /\ v \in chan'[b].invites <=> v \in chan[b].invites /\ v \notin new
          /\ chan'[b].exists
          /\ chan[b].members # {} => chan'[b].members # {}
          /\ v \in new => v \in alive
      BY <1>3, <2>3
    <3>2. b \in user'[v].channel <=> b \in user[v].channel \/ v \in new
      BY <2>3
    <3>3. b \in Invited(user'[v].invited) <=>
             b \in Invited(user[v].invited) /\ v \notin new
      BY <2>3
    <3> QED
      BY <2>1, <3>1, <3>2, <3>3 DEF PairOK
  <2> QED
    BY <2>2, <2>3
<1>5. CountRight'
  <2>1. \A b \in Channel \ {c} : chan'[b].exists = chan[b].exists
    BY <1>3
  <2>2. chan[c].exists \in BOOLEAN /\ chan'[c].exists /\ chan'[c].exists \in BOOLEAN
    BY <1>3, ChanTypes DEF Chan
  <2> QED
    BY <2>1, <2>2, CountChannels
<1>6. \A b \in Channel : chan'[b].users = Cardinality(chan'[b].members)
  BY <1>3, ChanTypes
<1>7. ASSUME NEW v \in Client
      PROVE  user'[v].joined = Cardinality(user'[v].channel)
  <2>1. /\ user[v].channel \in SUBSET Channel
        /\ user[v].joined = Cardinality(user[v].channel)
    BY ChanTypes
  <2>2. IsFiniteSet(user[v].channel)
    BY <2>1, ChannelsFinite
  <2>3. CASE v \in new
    <3>1. c \notin user[v].channel
      BY <2>3
    <3>2. Cardinality(user[v].channel \cup {c}) = Cardinality(user[v].channel) + 1
      BY <2>2, <3>1, FS_AddElement
    <3> QED
      BY <2>1, <2>3, <3>2
  <2>4. CASE v \notin new
    BY <2>1, <2>4
  <2> QED
    BY <2>3, <2>4
<1>8. \A v \in Client : /\ user'[v].joined = Cardinality(user'[v].channel)
                        /\ Ordered(user'[v].invited)
  BY <1>7
<1> QED
  BY <1>2, <1>3, <1>4, <1>5, <1>6, <1>8, Assemble

\* m_join
LEMMA JoinOK ==
    ASSUME IndInv, NEW u \in Client, NEW c \in Channel, Join(u, c)
    PROVE  IndInv'
<1>1. /\ u \in alive /\ c \notin user[u].channel
      /\ UNCHANGED <<alive, orphans>>
      /\ JoinExisting(u, c) \/ JoinNew(u, c)
  BY DEF Join, IsMember
<1>2. /\ chan[c] \in Chan /\ chan[c].members \in SUBSET Client
      /\ chan[c].ops \in SUBSET chan[c].members
      /\ chan[c].users = Cardinality(chan[c].members)
      /\ user[u] \in UserRec /\ Ordered(user[u].invited)
      /\ user[u].invited \in SUBSET (Channel \X Channel)
      /\ user \in [Client -> UserRec]
      /\ PairOK(u, c)
  BY ChanTypes DEF IndInv, TypeOK
<1>3. u \notin chan[c].members
  BY <1>1, <1>2 DEF PairOK
<1>4. /\ Cardinality({u}) = 1 /\ {u} \in SUBSET Client /\ {} \in SUBSET Client
      /\ Cardinality({u}) \in Nat
      /\ Cardinality(chan[c].members \cup {u}) = Cardinality(chan[c].members) + 1
  <2>1. IsFiniteSet(chan[c].members)
    BY <1>2, ClientsFinite
  <2>2. Cardinality(chan[c].members \cup {u}) = Cardinality(chan[c].members) + 1
    BY <2>1, <1>3, FS_AddElement
  <2>3. Cardinality({u}) = 1
    BY FS_Singleton
  <2> QED
    BY <2>2, <2>3
<1>5. user' = [user EXCEPT ![u] = DropInvites(AddChannel(@, c), {c})]
  BY <1>1 DEF JoinExisting, JoinNew
<1> DEFINE p == AddChannel(user[u], c)
           q == DropInvites(p, {c})
<1>6. /\ p \in UserRec /\ p.channel = user[u].channel \cup {c}
      /\ p.joined = user[u].joined + 1 /\ p.invited = user[u].invited
  BY <1>2, UserFields
<1>7. /\ q \in UserRec /\ q.channel = user[u].channel \cup {c}
      /\ q.joined = user[u].joined + 1
      /\ Invited(q.invited) = Invited(user[u].invited) \ {c}
      /\ Ordered(q.invited)
  <2> HIDE DEF p
  <2>1. /\ q \in UserRec /\ q.channel = p.channel /\ q.joined = p.joined
        /\ Invited(q.invited) = Invited(p.invited) \ {c} /\ Ordered(q.invited)
    BY <1>2, <1>6, DroppedUser
  <2> QED
    BY <2>1, <1>6
<1>8. user'[u] = q /\ \A v \in Client : v # u => user'[v] = user[v]
  BY <1>2, <1>5
<1>9. user' \in [Client -> UserRec]
  BY <1>2, <1>5, <1>7
<1> HIDE DEF p, q
<1>10. \A v \in Client :
         /\ user'[v].channel = IF v \in {u} THEN user[v].channel \cup {c}
                               ELSE user[v].channel
         /\ user'[v].joined = IF v \in {u} THEN user[v].joined + 1
                              ELSE user[v].joined
         /\ Ordered(user'[v].invited)
         /\ \A b \in Channel : b \in Invited(user'[v].invited) <=>
               b \in Invited(user[v].invited) /\ ~(v \in {u} /\ b = c)
  BY <1>7, <1>8, ChanTypes
<1>11. ASSUME NEW d \in Chan, chan' = [chan EXCEPT ![c] = d],
              d.members = chan[c].members \cup {u},
              d.users = Cardinality(d.members),
              d.ops \subseteq d.members, d.exists,
              d.invites = chan[c].invites \ {u},
              count' = IF chan[c].exists THEN count ELSE count + 1
       PROVE  IndInv'
  <2>1. {u} \in SUBSET alive /\ \A v \in {u} : c \notin user[v].channel
    BY <1>1
  <2>2. \A v \in Client : v \in d.invites <=> v \in chan[c].invites /\ v \notin {u}
    BY <1>11
  <2> QED
    BY <1>1, <1>9, <1>10, <1>11, <2>1, <2>2, EnterOK
<1> DEFINE one == {u}
           none == {}
<1>12. /\ one \in SUBSET Client /\ Cardinality(one) = 1 /\ Cardinality(one) \in Nat
       /\ none \in SUBSET Client
  BY <1>4
<1>13. CASE JoinExisting(u, c)
  <2> DEFINE r == AddUserToChannel(chan[c], one, none)
             d == Uninvite(r, one)
  <2>1. /\ chan' = [chan EXCEPT ![c] = d] /\ chan[c].exists /\ count' = count
    BY <1>13 DEF JoinExisting
  <2>2. /\ r \in Chan /\ r.exists = chan[c].exists
        /\ r.members = chan[c].members \cup one
        /\ r.users = chan[c].users + Cardinality(one)
        /\ r.ops = chan[c].ops \cup none /\ r.invites = chan[c].invites
    <3> HIDE DEF one, none, r, d
    <3> QED BY <1>2, <1>12, AddUserFields DEF r
  <2>3. /\ d \in Chan /\ d.exists = chan[c].exists
        /\ d.members = r.members /\ d.users = r.users
        /\ d.ops = r.ops /\ d.invites = r.invites \ one
    <3> HIDE DEF r, one, none
    <3> QED BY <2>2, UninviteFields
  <2> HIDE DEF r, d
  <2>4. d.users = Cardinality(d.members)
    BY <1>2, <1>4, <2>2, <2>3
  <2>5. d.ops \subseteq d.members
    BY <1>2, <2>2, <2>3
  <2> QED
    BY <1>11, <2>1, <2>2, <2>3, <2>4, <2>5
<1>14. CASE JoinNew(u, c)
  <2> DEFINE d == AddUserToChannel(NewChan, one, one)
  <2>1. /\ chan' = [chan EXCEPT ![c] = d] /\ ~chan[c].exists /\ count' = count + 1
    BY <1>14 DEF JoinNew
  <2>2. /\ d \in Chan /\ d.exists = NewChan.exists
        /\ d.members = NewChan.members \cup one
        /\ d.users = NewChan.users + Cardinality(one)
        /\ d.ops = NewChan.ops \cup one /\ d.invites = NewChan.invites
    <3> HIDE DEF one, none, d
    <3>1. NewChan \in Chan /\ d = AddUserToChannel(NewChan, one, one)
      BY NoChanFields DEF d
    <3> QED BY <3>1, <1>12, AddUserFields
  <2>3. chan[c].members = {} /\ chan[c].invites = {}
    BY <2>1, NothingThere
  <2> HIDE DEF d
  <2>4. /\ d.members = chan[c].members \cup {u} /\ d.ops \subseteq d.members
        /\ d.invites = chan[c].invites \ {u} /\ d.exists
    BY <2>2, <2>3, NoChanFields
  <2>5. d.members = one /\ d.users = 1
    BY <1>12, <2>2, NoChanFields
  <2>6. d.users = Cardinality(d.members)
    BY <2>5, <1>12
  <2> QED
    BY <1>11, <2>1, <2>2, <2>4, <2>6
<1> QED
  BY <1>1, <1>13, <1>14

Winners == {"theirs", "ours", "both"}

\* Modes that an SJOIN brings touch no link and no counter.
LEMMA SjoinModesFields ==
    ASSUME NEW ch \in Chan, NEW wins \in Winners,
           NEW plusI \in BOOLEAN, NEW limit \in Limits,
           NEW q, q = SjoinModes(ch, wins, plusI, limit)
    PROVE  /\ q \in Chan /\ q.exists = ch.exists /\ q.members = ch.members
           /\ q.users = ch.users /\ q.invites = ch.invites
           /\ q.ops \subseteq ch.ops
<1>1. /\ ch.limit \in Limits /\ ch.inviteonly \in BOOLEAN
      /\ ch.ops \in SUBSET Client
  BY DEF Chan
<1>2. ASSUME NEW S \in SUBSET Client, NEW i \in BOOLEAN, NEW l \in Limits,
             q = [ch EXCEPT !.ops = S, !.inviteonly = i, !.limit = l]
      PROVE  /\ q \in Chan /\ q.exists = ch.exists /\ q.members = ch.members
             /\ q.users = ch.users /\ q.invites = ch.invites /\ q.ops = S
  BY <1>2 DEF Chan
<1>3. ASSUME NEW i \in BOOLEAN, NEW l \in Limits,
             q = [ch EXCEPT !.inviteonly = i, !.limit = l]
      PROVE  /\ q \in Chan /\ q.exists = ch.exists /\ q.members = ch.members
             /\ q.users = ch.users /\ q.invites = ch.invites
             /\ q.ops = ch.ops
  BY <1>3 DEF Chan
<1>4. CASE wins = "theirs"
  <2>1. q = [ch EXCEPT !.ops = {}, !.inviteonly = plusI, !.limit = limit]
    BY <1>4 DEF SjoinModes
  <2>2. {} \in SUBSET Client
    OBVIOUS
  <2>3. /\ q \in Chan /\ q.exists = ch.exists /\ q.members = ch.members
        /\ q.users = ch.users /\ q.invites = ch.invites /\ q.ops = {}
    BY <1>2, <2>1, <2>2, Zenon
  <2> QED
    BY <2>3
<1>5. CASE wins = "both"
  <2> DEFINE i == ch.inviteonly \/ plusI
             l == IF ch.limit < limit THEN limit ELSE ch.limit
  <2>1. q = [ch EXCEPT !.inviteonly = i, !.limit = l]
    BY <1>5 DEF SjoinModes
  <2>2. i \in BOOLEAN /\ l \in Limits
    BY <1>1
  <2> HIDE DEF i, l
  <2> QED
    BY <1>3, <2>1, <2>2
<1>6. CASE wins = "ours"
  BY <1>6 DEF SjoinModes
<1> QED
  BY <1>4, <1>5, <1>6 DEF Winners

\* m_sjoin: who enters is not ours, and so is not invited anywhere.
LEMMA SjoinOK ==
    ASSUME IndInv, NEW us \in SUBSET (alive \ Local), NEW c \in Channel,
           NEW opped \in BOOLEAN, NEW wins \in Winners,
           NEW plusI \in BOOLEAN, NEW limit \in Limits,
           Sjoin(us, c, opped, wins, plusI, limit)
    PROVE  IndInv'
<1> DEFINE new == Joining(us, c)
           old == IF chan[c].exists THEN chan[c] ELSE NewChan
           modes == SjoinModes(old, wins, plusI, limit)
           os == IF opped THEN new ELSE {}
           d == AddUserToChannel(modes, new, os)
<1>1. /\ chan' = [chan EXCEPT ![c] = d]
      /\ user' = [u \in Client |->
             IF u \in new THEN AddChannel(user[u], c) ELSE user[u]]
      /\ count' = IF chan[c].exists THEN count ELSE count + 1
      /\ UNCHANGED <<alive, orphans>>
  BY DEF Sjoin
<1>2. /\ new \in SUBSET us /\ os \in SUBSET new /\ alive \subseteq Client
      /\ \A v \in new : c \notin user[v].channel
  BY DEF Joining, IsMember, IndInv, TypeOK
<1> HIDE DEF new, os
<1>3. new \in SUBSET Client /\ os \in SUBSET Client /\ new \in SUBSET alive
      /\ IsFiniteSet(new) /\ Cardinality(new) \in Nat
  BY <1>2, ClientsFinite
<1>4. /\ old \in Chan /\ old.members = chan[c].members /\ old.exists
      /\ old.users = Cardinality(chan[c].members)
      /\ old.invites = chan[c].invites /\ old.ops \subseteq old.members
  <2>1. CASE chan[c].exists
    BY <2>1, ChanTypes
  <2>2. CASE ~chan[c].exists
    <3>1. /\ chan[c].members = {} /\ chan[c].invites = {} /\ chan[c].users = 0
      BY <2>2, NothingThere
    <3>2. old = NewChan
      BY <2>2
    <3>3. Cardinality(chan[c].members) = 0
      BY <3>1, ChanTypes
    <3> QED
      BY <3>1, <3>2, <3>3, NoChanFields
  <2> QED
    BY <2>1, <2>2
<1> HIDE DEF old
<1>5. /\ modes \in Chan /\ modes.exists = old.exists
      /\ modes.members = old.members /\ modes.users = old.users
      /\ modes.invites = old.invites /\ modes.ops \subseteq old.ops
  <2>1. old \in Chan /\ modes = SjoinModes(old, wins, plusI, limit)
    BY <1>4
  <2> HIDE DEF modes
  <2> QED
    BY <2>1, SjoinModesFields
<1> HIDE DEF modes
<1>6. /\ d \in Chan /\ d.exists = modes.exists
      /\ d.members = modes.members \cup new
      /\ d.users = modes.users + Cardinality(new)
      /\ d.ops = modes.ops \cup os /\ d.invites = modes.invites
  <2>1. /\ modes \in Chan /\ new \in SUBSET Client /\ os \in SUBSET Client
        /\ Cardinality(new) \in Nat /\ d = AddUserToChannel(modes, new, os)
    BY <1>3, <1>5
  <2> HIDE DEF d
  <2> QED
    BY <2>1, AddUserFields
<1> HIDE DEF d
<1>7. chan[c].members \cap new = {}
  <2> SUFFICES ASSUME NEW v \in new PROVE v \notin chan[c].members
    OBVIOUS
  <2>1. PairOK(v, c) /\ c \notin user[v].channel
    BY <1>2, <1>3, ChanTypes
  <2> QED
    BY <2>1 DEF PairOK
<1>8. d.users = Cardinality(d.members)
  <2> DEFINE S == chan[c].members
  <2>1. IsFiniteSet(S) /\ S \cap new = {} /\ Cardinality(S) \in Nat
    BY <1>7, ChanTypes, ClientsFinite
  <2>2. Cardinality(S \cup new) = Cardinality(S) + Cardinality(new)
    <3>1. Cardinality(S \cup new) =
             Cardinality(S) + Cardinality(new) - Cardinality(S \cap new)
      <4> HIDE DEF S
      <4> QED BY <2>1, <1>3, FS_Union
    <3>2. Cardinality(S \cap new) = 0
      BY <2>1, FS_EmptySet
    <3> QED
      BY <3>1, <3>2, <2>1, <1>3
  <2> QED
    BY <2>2, <1>4, <1>5, <1>6
<1>9. \A v \in Client : v \in d.invites <=> v \in chan[c].invites /\ v \notin new
  <2> SUFFICES ASSUME NEW v \in new PROVE v \notin chan[c].invites
    BY <1>4, <1>5, <1>6
  <2>1. PairOK(v, c) /\ v \notin Local
    BY <1>2, <1>3, ChanTypes
  <2> QED
    BY <2>1 DEF PairOK
<1>10. ASSUME NEW v \in Client
       PROVE  /\ user'[v] \in UserRec
              /\ user'[v].channel = IF v \in new THEN user[v].channel \cup {c}
                                    ELSE user[v].channel
              /\ user'[v].joined = IF v \in new THEN user[v].joined + 1
                                   ELSE user[v].joined
              /\ user'[v].invited = user[v].invited
  <2>1. user[v] \in UserRec
    BY ChanTypes
  <2>2. CASE v \in new
    <3>1. user'[v] = AddChannel(user[v], c)
      BY <1>1, <2>2
    <3> QED
      BY <2>1, <2>2, <3>1, UserFields
  <2>3. CASE v \notin new
    BY <1>1, <2>1, <2>3
  <2> QED
    BY <2>2, <2>3
<1>11. ASSUME NEW v \in Client
       PROVE  /\ Ordered(user'[v].invited)
              /\ \A b \in Channel : b \in Invited(user'[v].invited) <=>
                    b \in Invited(user[v].invited) /\ ~(v \in new /\ b = c)
  <2>1. Ordered(user[v].invited) /\ PairOK(v, c)
    BY ChanTypes
  <2>2. v \in new => v \notin Local
    BY <1>2
  <2>3. v \in new => c \notin Invited(user[v].invited)
    BY <2>1, <2>2 DEF PairOK
  <2> QED
    BY <1>10, <2>1, <2>3
<1>12. user' \in [Client -> UserRec]
  BY <1>1, <1>10
<1>13. d.members = chan[c].members \cup new /\ d.ops \subseteq d.members /\ d.exists
  BY <1>2, <1>4, <1>5, <1>6
<1> QED
  BY <1>1, <1>2, <1>3, <1>6, <1>8, <1>9, <1>10, <1>11, <1>12, <1>13, EnterOK

-----------------------------------------------------------------------------
(* The exit of a client                                                    *)

LEMMA ExitOK ==
    ASSUME IndInv, NEW u \in Client, ExitOneClient(u)
    PROVE  IndInv'
<1> DEFINE cs == user[u].channel
           left == Invited(user[u].invited)
<1>1. /\ TypeOK /\ Pairs /\ CountRight
      /\ alive' = alive \ {u} /\ alive \subseteq Client
      /\ orphans' = orphans \cup LostMasks(cs) /\ orphans \subseteq Mask
      /\ count' = count - Cardinality(Freed(cs))
  BY DEF IndInv, ExitOneClient, TypeOK
<1>2. cs \in SUBSET Channel /\ left \in SUBSET Channel
  BY ChanTypes DEF Invited
<1>3. ASSUME NEW c \in Channel
      PROVE  /\ chan'[c] \in Chan
             /\ chan'[c].members = chan[c].members \ {u}
             /\ chan'[c].users = Cardinality(chan'[c].members)
             /\ chan'[c].ops = chan[c].ops \ {u}
             /\ \A v \in Client : v \in chan'[c].invites <=>
                   /\ v \in chan[c].invites /\ v # u
                   /\ ~(c \in cs /\ chan[c].users <= 1)
             /\ c \in cs /\ chan[c].users > 1 => chan'[c].members # {}
             /\ chan'[c].exists <=> chan[c].exists /\ c \notin Freed(cs)
  <2> DEFINE left1 == IF c \in left THEN {u} ELSE {}
             x == IF c \in cs THEN RemoveMember(chan[c], u) ELSE chan[c]
  <2>1. chan'[c] = Uninvite(x, left1)
    BY DEF ExitOneClient
  <2>2. /\ chan[c] \in Chan /\ chan[c].members \in SUBSET Client
        /\ chan[c].ops \in SUBSET chan[c].members
        /\ chan[c].users = Cardinality(chan[c].members)
        /\ PairOK(u, c) /\ chan[c].users \in Int
    BY ChanTypes
  <2>3. /\ x \in Chan
        /\ x.members = chan[c].members \ {u}
        /\ x.users = Cardinality(x.members)
        /\ x.ops = chan[c].ops \ {u}
        /\ x.invites = IF c \in cs /\ chan[c].users <= 1 THEN {}
                       ELSE chan[c].invites
        /\ c \in cs /\ chan[c].users > 1 => x.members # {}
        /\ x.exists <=> chan[c].exists /\ c \notin Freed(cs)
    <3>1. CASE c \in cs
      <4>1. x = RemoveMember(chan[c], u) /\ chan[c].exists
        BY <2>2, <3>1 DEF PairOK
      <4>2. c \in Freed(cs) <=> chan[c].users <= 1 /\ ~chan[c].juped
        BY <2>2, <3>1 DEF Freed
      <4>3. /\ x \in Chan
            /\ x.members = chan[c].members \ {u}
            /\ x.users = Cardinality(x.members)
            /\ x.ops = chan[c].ops \ {u}
            /\ x.invites = IF chan[c].users <= 1 THEN {} ELSE chan[c].invites
            /\ chan[c].users > 1 => x.members # {}
            /\ x.exists <=> ~(chan[c].users <= 1 /\ ~chan[c].juped)
        <5> HIDE DEF x
        <5> QED BY <3>1, <4>1, LeftChannel
      <4> HIDE DEF x
      <4> QED
        BY <3>1, <4>1, <4>2, <4>3
    <3>2. CASE c \notin cs
      <4>1. u \notin chan[c].members /\ c \notin Freed(cs)
        BY <2>2, <3>2 DEF PairOK, Freed
      <4>2. chan[c].members \ {u} = chan[c].members /\ chan[c].ops \ {u} = chan[c].ops
        BY <2>2, <4>1
      <4>3. x = chan[c]
        BY <3>2
      <4> HIDE DEF x
      <4> QED
        BY <2>2, <3>2, <4>1, <4>2, <4>3
    <3> QED
      BY <3>1, <3>2
  <2> HIDE DEF x
  <2>4. /\ chan'[c] \in Chan /\ chan'[c].exists = x.exists
        /\ chan'[c].members = x.members /\ chan'[c].users = x.users
        /\ chan'[c].ops = x.ops /\ chan'[c].invites = x.invites \ left1
    <3> HIDE DEF left1
    <3> QED BY <2>1, <2>3, UninviteFields
  <2>5. u \in chan[c].invites <=> c \in left
    BY <2>2 DEF PairOK
  <2>6. \A v \in Client : v \in chan'[c].invites <=>
           /\ v \in chan[c].invites /\ v # u
           /\ ~(c \in cs /\ chan[c].users <= 1)
    BY <2>3, <2>4, <2>5
  <2> QED
    BY <2>3, <2>4, <2>6
<1>4. ASSUME NEW v \in Client
      PROVE  /\ user'[v] \in UserRec
             /\ user'[v].channel = IF v = u THEN {} ELSE user[v].channel
             /\ user'[v].joined = Cardinality(user'[v].channel)
             /\ Invited(user'[v].invited) =
                   IF v = u THEN {}
                   ELSE Invited(user[v].invited) \ Uninvited(v, cs)
             /\ Ordered(user'[v].invited)
  <2>1. /\ user[v] \in UserRec /\ Ordered(user[v].invited)
        /\ user[v].joined = Cardinality(user[v].channel)
    BY ChanTypes
  <2>2. CASE v = u
    <3>1. user'[v] = DropInvites(LeaveChannels(user[v], cs), left)
      BY <2>2 DEF ExitOneClient
    <3>2. /\ user'[v] \in UserRec
          /\ user'[v].channel = user[v].channel \ cs
          /\ user'[v].joined = Cardinality(user'[v].channel)
          /\ Invited(user'[v].invited) = Invited(user[v].invited) \ left
          /\ Ordered(user'[v].invited)
      BY <2>1, <2>2, <3>1, LeftUser
    <3> QED
      BY <2>2, <3>2
  <2>3. CASE v # u
    <3>1. user'[v] = DropInvites(user[v], Uninvited(v, cs))
      BY <2>3 DEF ExitOneClient
    <3>2. /\ user'[v] \in UserRec
          /\ user'[v].channel = user[v].channel
          /\ user'[v].joined = user[v].joined
          /\ Invited(user'[v].invited) =
                Invited(user[v].invited) \ Uninvited(v, cs)
          /\ Ordered(user'[v].invited)
      BY <2>1, <3>1, DroppedUser
    <3> QED
      BY <2>1, <2>3, <3>2
  <2> QED
    BY <2>2, <2>3
<1>5. chan' \in [Channel -> Chan] /\ user' \in [Client -> UserRec]
  <2>1. /\ DOMAIN chan' = Channel /\ chan' = [c \in Channel |-> chan'[c]]
        /\ user' = [v \in Client |-> user'[v]]
    BY DEF ExitOneClient
  <2>2. \A c \in Channel : chan'[c] \in Chan
    BY <1>3
  <2>3. \A v \in Client : user'[v] \in UserRec
    BY <1>4
  <2> QED
    BY <2>1, <2>2, <2>3
<1>6. Pairs'
  <2> SUFFICES ASSUME NEW v \in Client, NEW c \in Channel PROVE PairOK(v, c)'
    BY DEF Pairs
  <2>1. PairOK(v, c) /\ chan[c].users \in Int
    BY <1>1, ChanTypes DEF Pairs
  <2>2. /\ v \in chan'[c].members <=> v \in chan[c].members /\ v # u
        /\ v \in chan'[c].ops <=> v \in chan[c].ops /\ v # u
        /\ v \in chan'[c].invites <=>
              /\ v \in chan[c].invites /\ v # u
              /\ ~(c \in cs /\ chan[c].users <= 1)
    BY <1>3
  <2>3. c \in user'[v].channel <=> c \in user[v].channel /\ v # u
    BY <1>4
  <2>4. c \in Uninvited(v, cs) <=>
           c \in cs /\ chan[c].users <= 1 /\ v \in chan[c].invites
    BY <2>1 DEF Uninvited
  <2>5. c \in Invited(user'[v].invited) <=>
           /\ c \in Invited(user[v].invited) /\ v # u
           /\ ~(c \in cs /\ chan[c].users <= 1 /\ v \in chan[c].invites)
    BY <1>4, <2>4
  <2>6. v \in chan'[c].members => chan'[c].exists
    <3> SUFFICES ASSUME v \in chan'[c].members, c \in Freed(cs) PROVE FALSE
      BY <1>3, <2>1, <2>2 DEF PairOK
    <3>1. chan[c].users <= 1 /\ c \in cs
      BY <2>1 DEF Freed
    <3>2. u \in chan[c].members /\ v \in chan[c].members /\ v # u
      <4>1. PairOK(u, c)
        BY <1>1 DEF Pairs
      <4> QED
        BY <2>2, <3>1, <4>1 DEF PairOK
    <3>3. chan[c].members \in SUBSET Client
          /\ chan[c].users = Cardinality(chan[c].members)
      BY ChanTypes
    <3>4. chan[c].users <= 1 => chan[c].members = {u}
      BY <3>2, <3>3, CountOne
    <3> QED
      BY <3>1, <3>2, <3>4
  <2>7. v \in chan'[c].invites => chan'[c].exists /\ chan'[c].members # {}
    <3> SUFFICES ASSUME v \in chan'[c].invites
                 PROVE  chan'[c].exists /\ chan'[c].members # {}
      OBVIOUS
    <3>1. v \in chan[c].invites /\ ~(c \in cs /\ chan[c].users <= 1)
      BY <2>2
    <3>2. chan[c].exists /\ chan[c].members # {}
      BY <2>1, <3>1 DEF PairOK
    <3>3. c \notin Freed(cs)
      BY <2>1, <3>1 DEF Freed
    <3>4. CASE c \in cs
      BY <1>3, <2>1, <3>1, <3>2, <3>3, <3>4
    <3>5. CASE c \notin cs
      <4>1. PairOK(u, c)
        BY <1>1 DEF Pairs
      <4>2. u \notin chan[c].members
        BY <3>5, <4>1 DEF PairOK
      <4>3. chan'[c].members = chan[c].members \ {u}
        BY <1>3
      <4> QED
        BY <1>3, <3>2, <3>3, <4>2, <4>3
    <3> QED
      BY <3>4, <3>5
  <2> QED
    BY <1>1, <2>1, <2>2, <2>3, <2>5, <2>6, <2>7 DEF PairOK
<1>7. CountRight'
  <2>1. Existing' = Existing \ Freed(cs)
    BY <1>3 DEF Existing
  <2>2. Freed(cs) \subseteq Existing
    <3> SUFFICES ASSUME NEW c \in cs PROVE c \in Channel /\ chan[c].exists
      BY DEF Freed, Existing
    <3>1. c \in Channel /\ PairOK(u, c)
      BY <1>1, <1>2 DEF Pairs
    <3> QED
      BY <3>1 DEF PairOK
  <2>3. Existing \in SUBSET Channel
    BY DEF Existing
  <2>4. Cardinality(Existing \ Freed(cs)) = Cardinality(Existing) - Cardinality(Freed(cs))
    BY <2>2, <2>3, CountLess
  <2> QED
    BY <1>1, <2>1, <2>4 DEF CountRight
<1>8. alive' \subseteq Client /\ orphans' \subseteq Mask
  <2>1. LostMasks(cs) \in SUBSET Mask
    BY <1>1, <1>2, FreedType
  <2> QED
    BY <1>1, <2>1
<1>9. \A c \in Channel : chan'[c].users = Cardinality(chan'[c].members)
  BY <1>3
<1>10. \A v \in Client : /\ user'[v].joined = Cardinality(user'[v].channel)
                         /\ Ordered(user'[v].invited)
  BY <1>4
<1> QED
  BY <1>5, <1>6, <1>7, <1>8, <1>9, <1>10, Assemble

-----------------------------------------------------------------------------
(* Modes                                                                   *)

\* A step that changes flags, modes and masks of one channel, allocates it or
\* frees it while there is no link to it.
LEMMA ReplaceOK ==
    ASSUME IndInv, NEW c \in Channel, NEW d \in Chan,
           chan' = [chan EXCEPT ![c] = d],
           d.members = chan[c].members, d.users = chan[c].users,
           d.invites = chan[c].invites, d.ops \subseteq d.members,
           d.members = {} \/ d.exists,
           \/ chan[c].exists = d.exists /\ count' = count
           \/ ~chan[c].exists /\ d.exists /\ count' = count + 1
           \/ chan[c].exists /\ ~d.exists /\ count' = count - 1,
           orphans' \subseteq Mask, user' = user, alive' = alive
    PROVE  IndInv'
<1>1. TypeOK /\ Pairs
  BY DEF IndInv
<1>2. /\ chan \in [Channel -> Chan] /\ user' \in [Client -> UserRec]
      /\ alive' \subseteq Client
  BY <1>1 DEF TypeOK
<1>3. /\ chan' \in [Channel -> Chan] /\ chan'[c] = d
      /\ \A b \in Channel : b # c => chan'[b] = chan[b]
  BY <1>2
<1>4. Pairs'
  <2> SUFFICES ASSUME NEW v \in Client, NEW b \in Channel PROVE PairOK(v, b)'
    BY DEF Pairs
  <2>1. PairOK(v, b)
    BY <1>1 DEF Pairs
  <2>2. CASE b # c
    BY <1>3, <2>1, <2>2 DEF PairOK
  <2>3. CASE b = c
    <3>1. /\ v \in chan'[b].members <=> v \in chan[b].members
          /\ v \in chan'[b].invites <=> v \in chan[b].invites
          /\ v \in chan'[b].ops => v \in chan'[b].members
          /\ chan'[b].members = chan[b].members
          /\ chan'[b].members # {} => chan'[b].exists
      BY <1>3, <2>3
    <3>2. v \in chan'[b].members => chan'[b].exists
      BY <3>1
    <3> QED
      BY <2>1, <3>1, <3>2 DEF PairOK
  <2> QED
    BY <2>2, <2>3
<1>5. CountRight'
  <2>1. \A b \in Channel \ {c} : chan'[b].exists = chan[b].exists
    BY <1>3
  <2> QED
    BY <1>3, <2>1, CountChannels
<1>6. \A b \in Channel : chan'[b].users = Cardinality(chan'[b].members)
  <2> SUFFICES ASSUME NEW b \in Channel
               PROVE  chan'[b].users = Cardinality(chan'[b].members)
    OBVIOUS
  <2>1. chan[b].users = Cardinality(chan[b].members)
    BY ChanTypes
  <2> QED
    BY <1>3, <2>1
<1>7. \A v \in Client : /\ user'[v].joined = Cardinality(user'[v].channel)
                        /\ Ordered(user'[v].invited)
  BY ChanTypes
<1> QED
  BY <1>2, <1>3, <1>4, <1>5, <1>6, <1>7, Assemble

LEMMA ModeOpOK ==
    ASSUME IndInv, NEW by \in Client, NEW u \in Client, NEW c \in Channel,
           NEW add \in BOOLEAN, ModeOp(by, u, c, add)
    PROVE  IndInv'
<1> DEFINE os == IF add THEN chan[c].ops \cup {u} ELSE chan[c].ops \ {u}
           d == [chan[c] EXCEPT !.ops = os]
<1>1. /\ chan' = [chan EXCEPT ![c] = d] /\ c \in user[u].channel
      /\ UNCHANGED <<user, alive, count, orphans>>
  <2>1. chan \in [Channel -> Chan]
    BY DEF IndInv, TypeOK
  <2> QED
    BY <2>1 DEF ModeOp, IsMember
<1>2. /\ chan[c] \in Chan /\ chan[c].ops \in SUBSET chan[c].members
      /\ chan[c].members \in SUBSET Client /\ PairOK(u, c)
      /\ \A v \in Client : PairOK(v, c)
  BY ChanTypes
<1>3. u \in chan[c].members
  BY <1>1, <1>2 DEF PairOK
<1>4. os \in SUBSET chan[c].members /\ os \in SUBSET Client
  BY <1>2, <1>3
<1> HIDE DEF os
<1>5. /\ d \in Chan /\ d.members = chan[c].members /\ d.users = chan[c].users
      /\ d.invites = chan[c].invites /\ d.exists = chan[c].exists /\ d.ops = os
  BY <1>2, <1>4 DEF Chan
<1>6. chan[c].exists
  BY <1>2, <1>3 DEF PairOK
<1>7. orphans' \subseteq Mask
  BY <1>1 DEF IndInv, TypeOK
<1> HIDE DEF d
<1> QED
  BY <1>1, <1>4, <1>5, <1>6, <1>7, ReplaceOK

LEMMA ModeLimitOK ==
    ASSUME IndInv, NEW by \in Client, NEW c \in Channel,
           NEW limit \in Limits, ModeLimit(by, c, limit)
    PROVE  IndInv'
<1> DEFINE d == [chan[c] EXCEPT !.limit = limit]
<1>1. /\ chan' = [chan EXCEPT ![c] = d] /\ chan[c].exists
      /\ UNCHANGED <<user, alive, count, orphans>>
  <2>1. chan \in [Channel -> Chan]
    BY DEF IndInv, TypeOK
  <2> QED
    BY <2>1 DEF ModeLimit, MayChange
<1>2. chan[c] \in Chan /\ chan[c].ops \in SUBSET chan[c].members
  BY ChanTypes
<1>3. /\ d \in Chan /\ d.members = chan[c].members /\ d.users = chan[c].users
      /\ d.invites = chan[c].invites /\ d.exists = chan[c].exists
      /\ d.ops = chan[c].ops
  BY <1>2 DEF Chan
<1>4. orphans' \subseteq Mask
  BY <1>1 DEF IndInv, TypeOK
<1> HIDE DEF d
<1> QED
  BY <1>1, <1>2, <1>3, <1>4, ReplaceOK

Kinds == {"b", "e", "I"}

\* add_id and del_id change one list and num_bed.
LEMMA MaskOK ==
    ASSUME IndInv, NEW c \in Channel, NEW kind \in Kinds, NEW S \in SUBSET Mask,
           NEW n \in Int, chan[c].exists,
           chan' = [chan EXCEPT ![c] = SetList(chan[c], kind, S, n)],
           UNCHANGED <<user, alive, count, orphans>>
    PROVE  IndInv'
<1> DEFINE S1 == IF kind = "b" THEN S ELSE chan[c].ban
           S2 == IF kind = "e" THEN S ELSE chan[c].exempt
           S3 == IF kind = "I" THEN S ELSE chan[c].invex
           d == [chan[c] EXCEPT !.ban = S1, !.exempt = S2, !.invex = S3,
                                !.numbed = n]
<1>1. chan[c] \in Chan /\ chan[c].ops \in SUBSET chan[c].members
  BY ChanTypes
<1>2. S1 \in SUBSET Mask /\ S2 \in SUBSET Mask /\ S3 \in SUBSET Mask
  BY <1>1 DEF Chan
<1>3. chan' = [chan EXCEPT ![c] = d]
  BY DEF SetList
<1> HIDE DEF S1, S2, S3
<1>4. /\ d \in Chan /\ d.members = chan[c].members /\ d.users = chan[c].users
      /\ d.invites = chan[c].invites /\ d.exists = chan[c].exists
      /\ d.ops = chan[c].ops
  BY <1>1, <1>2 DEF Chan
<1>5. orphans' \subseteq Mask
  BY DEF IndInv, TypeOK
<1> HIDE DEF d
<1> QED
  BY <1>1, <1>3, <1>4, <1>5, ReplaceOK

LEMMA ListOfType ==
    ASSUME NEW ch \in Chan, NEW kind \in Kinds
    PROVE  ListOf(ch, kind) \in SUBSET Mask /\ ch.numbed \in Int
<1>1. /\ ch.ban \in SUBSET Mask /\ ch.exempt \in SUBSET Mask
      /\ ch.invex \in SUBSET Mask /\ ch.numbed \in Int
  BY DEF Chan
<1> QED
  BY <1>1 DEF ListOf, Kinds

LEMMA AddMaskOK ==
    ASSUME IndInv, NEW by \in Client, NEW c \in Channel, NEW kind \in Kinds,
           NEW m \in Mask, AddMask(by, c, kind, m)
    PROVE  IndInv'
<1> DEFINE S == ListOf(chan[c], kind) \cup {m}
           n == chan[c].numbed + 1
<1>1. chan[c] \in Chan
  BY ChanTypes
<1>2. S \in SUBSET Mask /\ n \in Int
  BY <1>1, ListOfType
<1>3. chan' = [chan EXCEPT ![c] = SetList(chan[c], kind, S, n)]
  BY DEF AddMask
<1>4. chan[c].exists /\ UNCHANGED <<user, alive, count, orphans>>
  BY DEF AddMask, MayChange
<1> HIDE DEF S, n
<1> QED
  BY <1>2, <1>3, <1>4, MaskOK

LEMMA DelMaskOK ==
    ASSUME IndInv, NEW by \in Client, NEW c \in Channel, NEW kind \in Kinds,
           NEW m \in Mask, DelMask(by, c, kind, m)
    PROVE  IndInv'
<1> DEFINE S == ListOf(chan[c], kind) \ {m}
           n == IF chan[c].numbed > 0 THEN chan[c].numbed - 1 ELSE 0
<1>1. chan[c] \in Chan
  BY ChanTypes
<1>2. S \in SUBSET Mask /\ n \in Int
  BY <1>1, ListOfType
<1>3. chan' = [chan EXCEPT ![c] = SetList(chan[c], kind, S, n)]
  BY DEF DelMask
<1>4. chan[c].exists /\ UNCHANGED <<user, alive, count, orphans>>
  BY DEF DelMask, MayChange
<1> HIDE DEF S, n
<1> QED
  BY <1>2, <1>3, <1>4, MaskOK

LEMMA JupedFields ==
    ASSUME NEW ch \in Chan, NEW on \in BOOLEAN,
           NEW d, d = [ch EXCEPT !.juped = on]
    PROVE  /\ d \in Chan /\ d.members = ch.members /\ d.users = ch.users
           /\ d.invites = ch.invites /\ d.exists = ch.exists /\ d.ops = ch.ops
           /\ d.juped = on
  BY DEF Chan

\* A rehash may allocate a channel that nobody is on.
LEMMA RehashJupeOK ==
    ASSUME IndInv, NEW c \in Channel, NEW on \in BOOLEAN, RehashJupe(c, on)
    PROVE  IndInv'
<1> DEFINE old == IF chan[c].exists THEN chan[c] ELSE NewChan
           d == [old EXCEPT !.juped = on]
<1>1. /\ chan' = [chan EXCEPT ![c] = d]
      /\ count' = IF chan[c].exists THEN count ELSE count + 1
      /\ user' = user /\ alive' = alive /\ orphans' = orphans
      /\ d = [old EXCEPT !.juped = on]
  BY DEF RehashJupe
<1>2. chan[c] \in Chan /\ chan[c].ops \in SUBSET chan[c].members
  BY ChanTypes
<1>3. /\ old \in Chan /\ old.members = chan[c].members
      /\ old.users = chan[c].users /\ old.invites = chan[c].invites
      /\ old.exists /\ old.ops = chan[c].ops
  <2>1. CASE chan[c].exists
    BY <1>2, <2>1
  <2>2. CASE ~chan[c].exists
    <3>1. /\ chan[c].members = {} /\ chan[c].ops = {} /\ chan[c].invites = {}
          /\ chan[c].users = 0
      BY <2>2, NothingThere
    <3> QED
      BY <2>2, <3>1, NoChanFields
  <2> QED
    BY <2>1, <2>2
<1> HIDE DEF old, d
<1>4. /\ d \in Chan /\ d.members = old.members /\ d.users = old.users
      /\ d.invites = old.invites /\ d.exists = old.exists /\ d.ops = old.ops
  BY <1>1, <1>3, JupedFields
<1>5. orphans' \subseteq Mask
  BY <1>1 DEF IndInv, TypeOK
<1>6. chan[c].exists \in BOOLEAN /\ d.exists \in BOOLEAN
  BY <1>2, <1>4 DEF Chan
<1>7. \/ chan[c].exists = d.exists /\ count' = count
      \/ ~chan[c].exists /\ d.exists /\ count' = count + 1
  BY <1>1, <1>3, <1>4, <1>6
<1> QED
  BY <1>1, <1>2, <1>3, <1>4, <1>5, <1>7, ReplaceOK

\* MODE -j frees a channel only if there is no link to it.
LEMMA ModeJupeOK ==
    ASSUME IndInv, NEW by \in Client, NEW c \in Channel, NEW add \in BOOLEAN,
           ModeJupe(by, c, add)
    PROVE  IndInv'
<1> DEFINE dead == ~add /\ chan[c].users = 0
           ch == [chan[c] EXCEPT !.juped = add]
<1>1. /\ chan' = [chan EXCEPT ![c] = IF dead THEN Sub1FromChannel(ch) ELSE ch]
      /\ user' = [u \in Client |->
             IF dead /\ u \in chan[c].invites THEN DropInvites(user[u], {c})
             ELSE user[u]]
      /\ count' = IF dead THEN count - 1 ELSE count
      /\ orphans' = IF dead THEN orphans \cup chan[c].invex ELSE orphans
      /\ alive' = alive /\ chan[c].exists
  BY DEF ModeJupe
<1>2. /\ chan[c] \in Chan /\ chan[c].ops \in SUBSET chan[c].members
      /\ chan[c].members \in SUBSET Client /\ chan[c].invites \in SUBSET Client
      /\ chan[c].users = Cardinality(chan[c].members)
      /\ user \in [Client -> UserRec]
  BY ChanTypes DEF IndInv, TypeOK
<1>3. /\ ch \in Chan /\ ch.members = chan[c].members /\ ch.users = chan[c].users
      /\ ch.invites = chan[c].invites /\ ch.exists = chan[c].exists
      /\ ch.ops = chan[c].ops /\ ch.juped = add
  <2>1. ch = [chan[c] EXCEPT !.juped = add]
    OBVIOUS
  <2> HIDE DEF ch
  <2> QED
    BY <1>2, <2>1, JupedFields
<1>4. orphans' \subseteq Mask
  <2>1. orphans \subseteq Mask /\ chan[c].invex \subseteq Mask
    BY <1>2 DEF IndInv, TypeOK, Chan
  <2> QED
    BY <1>1, <2>1
<1> HIDE DEF ch
<1>5. CASE ~dead
  <2>1. user' = user
    BY <1>1, <1>2, <1>5
  <2>2. chan' = [chan EXCEPT ![c] = ch] /\ count' = count
    BY <1>1, <1>5
  <2> QED
    BY <1>1, <1>2, <1>3, <1>4, <2>1, <2>2, ReplaceOK
<1>6. CASE dead
  <2>1. chan[c].members = {}
    <3>1. IsFiniteSet(chan[c].members)
      BY <1>2, ClientsFinite
    <3> QED
      BY <1>2, <1>6, <3>1, FS_EmptySet
  <2>2. chan[c].invites = {}
    <3> SUFFICES ASSUME NEW v \in Client, v \in chan[c].invites PROVE FALSE
      BY <1>2
    <3>1. PairOK(v, c)
      BY ChanTypes
    <3> QED
      BY <2>1, <3>1 DEF PairOK
  <2>3. Sub1FromChannel(ch) = NoChan
    BY <1>3, <1>6 DEF Sub1FromChannel
  <2>4. user' = user
    BY <1>1, <1>2, <2>2
  <2>5. chan' = [chan EXCEPT ![c] = NoChan] /\ count' = count - 1
    BY <1>1, <1>6, <2>3
  <2>6. /\ NoChan.members = chan[c].members /\ NoChan.invites = chan[c].invites
        /\ NoChan.users = chan[c].users /\ ~NoChan.exists
        /\ NoChan.ops \subseteq NoChan.members /\ NoChan \in Chan
        /\ NoChan.members = {}
    BY <1>6, <2>1, <2>2, NoChanFields
  <2> QED
    BY <1>1, <1>4, <2>4, <2>5, <2>6, ReplaceOK
<1> QED
  BY <1>5, <1>6

-----------------------------------------------------------------------------
(* Invitations                                                             *)

\* A step that changes nothing but invitations, on both sides alike, and the
\* flag of one channel.
LEMMA InvitesOK ==
    ASSUME IndInv, UNCHANGED <<alive, count, orphans>>,
           chan' \in [Channel -> Chan], user' \in [Client -> UserRec],
           \A b \in Channel :
              /\ chan'[b].members = chan[b].members
              /\ chan'[b].users = chan[b].users
              /\ chan'[b].ops = chan[b].ops
              /\ chan'[b].exists = chan[b].exists,
           \A v \in Client :
              /\ user'[v].channel = user[v].channel
              /\ user'[v].joined = user[v].joined
              /\ Ordered(user'[v].invited),
           \A v \in Client, b \in Channel :
              /\ v \in chan'[b].invites <=> b \in Invited(user'[v].invited)
              /\ v \in chan'[b].invites =>
                    \/ v \in chan[b].invites
                    \/ /\ v \in alive \cap Local /\ chan[b].exists
                       /\ v \notin chan[b].members /\ chan[b].members # {}
    PROVE  IndInv'
<1>1. TypeOK /\ Pairs /\ CountRight
  BY DEF IndInv
<1>2. alive' \subseteq Client /\ orphans' \subseteq Mask
  BY <1>1 DEF TypeOK
<1>3. Pairs'
  <2> SUFFICES ASSUME NEW v \in Client, NEW b \in Channel PROVE PairOK(v, b)'
    BY DEF Pairs
  <2>1. PairOK(v, b)
    BY <1>1 DEF Pairs
  <2>2. /\ v \in chan'[b].invites <=> b \in Invited(user'[v].invited)
        /\ v \in chan'[b].invites =>
              \/ v \in chan[b].invites
              \/ /\ v \in alive \cap Local /\ chan[b].exists
                 /\ v \notin chan[b].members /\ chan[b].members # {}
    OBVIOUS
  <2>3. /\ chan'[b].members = chan[b].members /\ chan'[b].ops = chan[b].ops
        /\ chan'[b].exists = chan[b].exists
        /\ user'[v].channel = user[v].channel /\ alive' = alive
    OBVIOUS
  <2> QED
    BY <2>1, <2>2, <2>3 DEF PairOK
<1>4. Existing' = Existing
  BY DEF Existing
<1>5. CountRight'
  BY <1>1, <1>4 DEF CountRight
<1>6. \A b \in Channel : chan'[b].users = Cardinality(chan'[b].members)
  BY ChanTypes
<1>7. \A v \in Client : /\ user'[v].joined = Cardinality(user'[v].channel)
                        /\ Ordered(user'[v].invited)
  BY ChanTypes
<1> QED
  BY <1>2, <1>3, <1>5, <1>6, <1>7, Assemble

\* m_invite and add_invite, whichever channel is taken for the oldest.
LEMMA InviteOK ==
    ASSUME IndInv, NEW by \in Client, NEW u \in Client, NEW c \in Channel,
           Invite(by, u, c)
    PROVE  IndInv'
<1> DEFINE inv == user[u].invited
           rest == Without(inv, {c})
           full == Cardinality(Invited(rest)) >= MaxChannels
           drop == IF full THEN {Oldest(rest)} ELSE {}
           kept == Without(rest, drop)
           last == WithLast(kept, c)
<1>1. /\ u \in alive \cap Local /\ chan[c].exists /\ c \notin user[u].channel
      /\ by \in chan[c].ops /\ UNCHANGED <<alive, count, orphans>>
  BY DEF Invite, IsMember
<1>2. /\ user' = [user EXCEPT ![u].invited = last]
      /\ chan' = [d \in Channel |->
             IF d = c THEN [chan[d] EXCEPT !.invites = @ \cup {u}]
             ELSE IF d \in drop THEN Uninvite(chan[d], {u})
             ELSE chan[d]]
  BY DEF Invite, AddInvite
<1>3. /\ inv \in SUBSET (Channel \X Channel) /\ Ordered(inv)
      /\ user \in [Client -> UserRec] /\ PairOK(u, c) /\ PairOK(by, c)
  BY ChanTypes DEF IndInv, TypeOK
<1> HIDE DEF drop, inv
<1>4. /\ rest \in SUBSET (Channel \X Channel) /\ Ordered(rest)
      /\ Invited(rest) = Invited(inv) \ {c}
  BY <1>3, InvitedWithout
<1> HIDE DEF rest
<1>5. /\ kept \in SUBSET (Channel \X Channel) /\ Ordered(kept)
      /\ Invited(kept) = Invited(rest) \ drop
  BY <1>4, InvitedWithout
<1> HIDE DEF kept
<1>6. /\ last \in SUBSET (Channel \X Channel) /\ Ordered(last)
      /\ Invited(last) = Invited(kept) \cup {c}
  BY <1>5, InvitedWithLast
<1> HIDE DEF last
<1>7. ASSUME NEW v \in Client
      PROVE  /\ user'[v] \in UserRec /\ user'[v].channel = user[v].channel
             /\ user'[v].joined = user[v].joined
             /\ user'[v].invited = IF v = u THEN last ELSE user[v].invited
  BY <1>2, <1>3, <1>6 DEF UserRec
<1>8. ASSUME NEW b \in Channel
      PROVE  /\ chan'[b] \in Chan /\ chan'[b].members = chan[b].members
             /\ chan'[b].users = chan[b].users /\ chan'[b].ops = chan[b].ops
             /\ chan'[b].exists = chan[b].exists
             /\ chan'[b].invites = IF b = c THEN chan[b].invites \cup {u}
                                   ELSE IF b \in drop THEN chan[b].invites \ {u}
                                   ELSE chan[b].invites
  <2>1. chan[b] \in Chan
    BY ChanTypes
  <2>2. CASE b = c
    <3>1. chan'[b] = [chan[b] EXCEPT !.invites = chan[b].invites \cup {u}]
      BY <1>2, <2>2
    <3> QED
      BY <2>1, <2>2, <3>1 DEF Chan
  <2>3. CASE b # c /\ b \in drop
    <3>1. chan'[b] = Uninvite(chan[b], {u})
      BY <1>2, <2>3
    <3> QED
      BY <2>1, <2>3, <3>1, UninviteFields
  <2>4. CASE b # c /\ b \notin drop
    BY <1>2, <2>1, <2>4
  <2> QED
    BY <2>2, <2>3, <2>4
<1>9. chan' \in [Channel -> Chan] /\ user' \in [Client -> UserRec]
  <2>1. /\ chan' = [b \in Channel |-> chan'[b]]
        /\ user' = [v \in Client |-> user'[v]]
    BY <1>2, <1>3
  <2>2. \A b \in Channel : chan'[b] \in Chan
    BY <1>8
  <2>3. \A v \in Client : user'[v] \in UserRec
    BY <1>7
  <2> QED
    BY <2>1, <2>2, <2>3
<1>10. u \notin chan[c].members /\ chan[c].members # {}
  BY <1>1, <1>3 DEF PairOK
<1>11. ASSUME NEW v \in Client, NEW b \in Channel
       PROVE  /\ v \in chan'[b].invites <=> b \in Invited(user'[v].invited)
              /\ v \in chan'[b].invites =>
                    \/ v \in chan[b].invites
                    \/ /\ v \in alive \cap Local /\ chan[b].exists
                       /\ v \notin chan[b].members /\ chan[b].members # {}
  <2>1. v \in chan[b].invites <=> b \in Invited(user[v].invited)
    <3>1. PairOK(v, b)
      BY ChanTypes
    <3> QED
      BY <3>1 DEF PairOK
  <2>2. v \in chan'[b].invites <=>
           \/ v = u /\ b = c
           \/ v \in chan[b].invites /\ ~(v = u /\ b \in drop)
    BY <1>8
  <2>3. CASE v = u
    <3>1. b \in Invited(user'[v].invited) <=>
             \/ b = c
             \/ b \in Invited(inv) /\ b # c /\ b \notin drop
      BY <1>4, <1>5, <1>6, <1>7, <2>3
    <3>2. b \in Invited(inv) <=> v \in chan[b].invites
      BY <2>1, <2>3 DEF inv
    <3> QED
      BY <1>1, <1>10, <2>2, <2>3, <3>1, <3>2
  <2>4. CASE v # u
    <3>1. user'[v].invited = user[v].invited
      BY <1>7, <2>4
    <3> QED
      BY <2>1, <2>2, <2>4, <3>1
  <2> QED
    BY <2>3, <2>4
<1>12. \A v \in Client : Ordered(user'[v].invited)
  BY <1>6, <1>7, ChanTypes
<1> QED
  BY <1>1, <1>7, <1>8, <1>9, <1>11, <1>12, InvitesOK

LEMMA DroppedOne ==
    ASSUME NEW r \in UserRec, Ordered(r.invited), NEW c \in Channel,
           NEW q, q = DropInvites(r, {c})
    PROVE  /\ q \in UserRec /\ q.channel = r.channel /\ q.joined = r.joined
           /\ Invited(q.invited) = Invited(r.invited) \ {c}
           /\ Ordered(q.invited)
  BY DroppedUser

\* MODE +i and -i
LEMMA ModeInviteOnlyOK ==
    ASSUME IndInv, NEW by \in Client, NEW c \in Channel, NEW add \in BOOLEAN,
           ModeInviteOnly(by, c, add)
    PROVE  IndInv'
<1> DEFINE out == IF add THEN {} ELSE chan[c].invites
           q == [chan[c] EXCEPT !.inviteonly = add]
           d == Uninvite(q, out)
<1>1. /\ UNCHANGED <<alive, count, orphans>>
      /\ chan' = [chan EXCEPT ![c] = d]
      /\ user' = [u \in Client |->
             IF u \in out THEN DropInvites(user[u], {c}) ELSE user[u]]
  BY DEF ModeInviteOnly
<1>2. /\ chan[c] \in Chan /\ chan \in [Channel -> Chan]
      /\ out \subseteq chan[c].invites
  BY ChanTypes DEF IndInv, TypeOK
<1> HIDE DEF out
<1>3. /\ q \in Chan /\ q.members = chan[c].members /\ q.users = chan[c].users
      /\ q.invites = chan[c].invites /\ q.exists = chan[c].exists
      /\ q.ops = chan[c].ops
  BY <1>2 DEF Chan
<1> HIDE DEF q
<1>4. /\ d \in Chan /\ d.members = chan[c].members /\ d.users = chan[c].users
      /\ d.invites = chan[c].invites \ out /\ d.exists = chan[c].exists
      /\ d.ops = chan[c].ops
  BY <1>3, UninviteFields
<1> HIDE DEF d
<1>5. /\ chan' \in [Channel -> Chan] /\ chan'[c] = d
      /\ \A b \in Channel : b # c => chan'[b] = chan[b]
  BY <1>1, <1>2, <1>4
<1>6. ASSUME NEW v \in Client
      PROVE  /\ user'[v] \in UserRec /\ user'[v].channel = user[v].channel
             /\ user'[v].joined = user[v].joined
             /\ Invited(user'[v].invited) =
                   IF v \in out THEN Invited(user[v].invited) \ {c}
                   ELSE Invited(user[v].invited)
             /\ Ordered(user'[v].invited)
  <2>1. user[v] \in UserRec /\ Ordered(user[v].invited)
    BY ChanTypes
  <2>2. CASE v \in out
    <3> DEFINE r == user[v]
               p == user'[v]
    <3>1. p = DropInvites(r, {c}) /\ r \in UserRec /\ Ordered(r.invited)
      BY <1>1, <2>1, <2>2
    <3> HIDE DEF r, p
    <3>2. /\ p \in UserRec /\ p.channel = r.channel /\ p.joined = r.joined
          /\ Invited(p.invited) = Invited(r.invited) \ {c}
          /\ Ordered(p.invited)
      BY <3>1, DroppedOne
    <3> QED
      BY <2>2, <3>2 DEF r, p
  <2>3. CASE v \notin out
    BY <1>1, <2>1, <2>3
  <2> QED
    BY <2>2, <2>3
<1>7. user' \in [Client -> UserRec]
  <2>1. user' = [v \in Client |-> user'[v]]
    BY <1>1
  <2>2. \A v \in Client : user'[v] \in UserRec
    BY <1>6
  <2> QED
    BY <2>1, <2>2
<1>8. ASSUME NEW v \in Client, NEW b \in Channel
      PROVE  /\ v \in chan'[b].invites <=> b \in Invited(user'[v].invited)
             /\ v \in chan'[b].invites => v \in chan[b].invites
  <2>1. v \in chan[b].invites <=> b \in Invited(user[v].invited)
    <3>1. PairOK(v, b)
      BY ChanTypes
    <3> QED
      BY <3>1 DEF PairOK
  <2>2. v \in chan'[b].invites <=> v \in chan[b].invites /\ ~(b = c /\ v \in out)
    BY <1>4, <1>5
  <2>3. b \in Invited(user'[v].invited) <=>
           b \in Invited(user[v].invited) /\ ~(b = c /\ v \in out)
    BY <1>6
  <2> QED
    BY <2>1, <2>2, <2>3
<1>9. \A b \in Channel :
        /\ chan'[b].members = chan[b].members /\ chan'[b].users = chan[b].users
        /\ chan'[b].ops = chan[b].ops /\ chan'[b].exists = chan[b].exists
  BY <1>4, <1>5
<1> QED
  BY <1>1, <1>5, <1>6, <1>7, <1>8, <1>9, InvitesOK

-----------------------------------------------------------------------------
(* Masks are counted                                                       *)

\* num_bed counts the three lists.
MasksRight(ch) ==
    ch.numbed = Cardinality(ch.ban) + Cardinality(ch.exempt) + Cardinality(ch.invex)

SameMasks(d, ch) ==
    /\ d.ban = ch.ban /\ d.exempt = ch.exempt /\ d.invex = ch.invex
    /\ d.numbed = ch.numbed

LEMMA SameMasksRight ==
    ASSUME NEW ch, NEW d, SameMasks(d, ch), MasksRight(ch)
    PROVE  MasksRight(d)
  BY DEF SameMasks, MasksRight

LEMMA NoMasks == MasksRight(NoChan) /\ MasksRight(NewChan) /\ SameMasks(NewChan, NoChan)
<1>1. /\ NoChan.ban = {} /\ NoChan.exempt = {} /\ NoChan.invex = {} /\ NoChan.numbed = 0
      /\ SameMasks(NewChan, NoChan)
  BY DEF NoChan, NewChan, SameMasks
<1>2. Cardinality({}) = 0
  BY FS_EmptySet
<1>3. MasksRight(NoChan)
  BY <1>1, <1>2 DEF MasksRight
<1> QED
  BY <1>1, <1>3, SameMasksRight

LEMMA MasksKept ==
    ASSUME NEW ch \in Chan
    PROVE  /\ \A us : SameMasks(Uninvite(ch, us), ch)
           /\ \A us, os : SameMasks(AddUserToChannel(ch, us, os), ch)
           /\ \A w \in {"theirs", "ours", "both"} : \A p, l :
                SameMasks(SjoinModes(ch, w, p, l), ch)
           /\ SameMasks(Sub1FromChannel(ch), ch) \/ Sub1FromChannel(ch) = NoChan
           /\ \A u : SameMasks(RemoveMember(ch, u), ch) \/ RemoveMember(ch, u) = NoChan
           /\ \A x : /\ SameMasks([ch EXCEPT !.juped = x], ch)
                     /\ SameMasks([ch EXCEPT !.inviteonly = x], ch)
                     /\ SameMasks([ch EXCEPT !.limit = x], ch)
                     /\ SameMasks([ch EXCEPT !.ops = x], ch)
<1>1. \A us : SameMasks(Uninvite(ch, us), ch)
  BY DEF Uninvite, SameMasks, Chan
<1>2. \A us, os : SameMasks(AddUserToChannel(ch, us, os), ch)
  BY DEF AddUserToChannel, SameMasks, Chan
<1>3. \A w \in {"theirs", "ours", "both"} : \A p, l : SameMasks(SjoinModes(ch, w, p, l), ch)
  BY DEF SjoinModes, SameMasks, Chan
<1>4. SameMasks(Sub1FromChannel(ch), ch) \/ Sub1FromChannel(ch) = NoChan
  BY DEF Sub1FromChannel, SameMasks, Chan
<1>5. \A u : SameMasks(RemoveMember(ch, u), ch) \/ RemoveMember(ch, u) = NoChan
  BY DEF RemoveMember, Sub1FromChannel, SameMasks, Chan
<1>6. \A x : /\ SameMasks([ch EXCEPT !.juped = x], ch)
             /\ SameMasks([ch EXCEPT !.inviteonly = x], ch)
             /\ SameMasks([ch EXCEPT !.limit = x], ch)
             /\ SameMasks([ch EXCEPT !.ops = x], ch)
  BY DEF SameMasks, Chan
<1> QED
  BY <1>1, <1>2, <1>3, <1>4, <1>5, <1>6

LEMMA SameMasksTrans ==
    ASSUME NEW a, NEW b, NEW ch, SameMasks(a, b), SameMasks(b, ch)
    PROVE  SameMasks(a, ch)
  BY DEF SameMasks

\* The masks of every channel are the old ones or, where it was freed, none.
LEMMA MasksCarried ==
    ASSUME MasksCounted,
           \A c \in Channel : \/ SameMasks(chan'[c], chan[c])
                              \/ SameMasks(chan'[c], NoChan)
    PROVE  MasksCounted'
<1>1. ASSUME NEW c \in Channel PROVE MasksRight(chan'[c])
  <2>1. MasksRight(chan[c])
    BY DEF MasksCounted, MasksRight
  <2> QED
    BY <2>1, NoMasks, SameMasksRight
<1> QED
  BY <1>1 DEF MasksCounted, MasksRight

LEMMA SameMasksSelf == \A ch : SameMasks(ch, ch)
  BY DEF SameMasks

LEMMA MasksFinite ==
    ASSUME NEW S \in SUBSET Mask
    PROVE  IsFiniteSet(S) /\ Cardinality(S) \in Nat
  BY FS_Subset, FS_CardinalityType, MaskAssumption

\* add_id
LEMMA AddMaskCounted ==
    ASSUME IndInv, MasksCounted, NEW by \in Client, NEW c \in Channel,
           NEW kind \in {"b", "e", "I"}, NEW m \in Mask, AddMask(by, c, kind, m)
    PROVE  MasksCounted'
<1> DEFINE ch == chan[c]
           S == ListOf(ch, kind)
           d == SetList(ch, kind, S \cup {m}, ch.numbed + 1)
<1>1. chan' = [chan EXCEPT ![c] = d] /\ AddIdAllowed(by, ch, kind, m)
  BY DEF AddMask
<1>2. chan \in [Channel -> Chan] /\ ch \in Chan /\ MasksRight(ch)
  BY DEF IndInv, TypeOK, MasksCounted, MasksRight
<1>3. ch.ban \in SUBSET Mask /\ ch.exempt \in SUBSET Mask /\ ch.invex \in SUBSET Mask
      /\ ch.numbed \in Int
  BY <1>2 DEF Chan
<1>4. S \in SUBSET Mask
  BY <1>3 DEF ListOf
<1>5. m \notin S
  BY <1>1, <1>4, MaskAssumption DEF AddIdAllowed
<1>6. IsFiniteSet(S) /\ Cardinality(S \cup {m}) = Cardinality(S) + 1
  BY <1>4, <1>5, MasksFinite, FS_AddElement
<1>7. /\ d.ban = (IF kind = "b" THEN S \cup {m} ELSE ch.ban)
      /\ d.exempt = (IF kind = "e" THEN S \cup {m} ELSE ch.exempt)
      /\ d.invex = (IF kind = "I" THEN S \cup {m} ELSE ch.invex)
      /\ d.numbed = ch.numbed + 1
  BY <1>2 DEF SetList, Chan
<1>8. /\ kind = "b" => S = ch.ban
      /\ kind = "e" => S = ch.exempt
      /\ kind = "I" => S = ch.invex
  BY DEF ListOf
<1>9. /\ Cardinality(ch.ban) \in Nat /\ Cardinality(ch.exempt) \in Nat
      /\ Cardinality(ch.invex) \in Nat
  BY <1>3, MasksFinite
<1> HIDE DEF d, S, ch
<1>10. MasksRight(d)
  BY <1>2, <1>6, <1>7, <1>8, <1>9 DEF MasksRight
<1>11. ASSUME NEW b \in Channel PROVE MasksRight(chan'[b])
  BY <1>1, <1>2, <1>10 DEF MasksCounted, MasksRight
<1> QED
  BY <1>11 DEF MasksCounted, MasksRight

\* del_id
LEMMA DelMaskCounted ==
    ASSUME IndInv, MasksCounted, NEW by \in Client, NEW c \in Channel,
           NEW kind \in {"b", "e", "I"}, NEW m \in Mask, DelMask(by, c, kind, m)
    PROVE  MasksCounted'
<1> DEFINE ch == chan[c]
           S == ListOf(ch, kind)
           n == IF ch.numbed > 0 THEN ch.numbed - 1 ELSE 0
           d == SetList(ch, kind, S \ {m}, n)
<1>1. chan' = [chan EXCEPT ![c] = d] /\ m \in S
  BY DEF DelMask
<1>2. chan \in [Channel -> Chan] /\ ch \in Chan /\ MasksRight(ch)
  BY DEF IndInv, TypeOK, MasksCounted, MasksRight
<1>3. ch.ban \in SUBSET Mask /\ ch.exempt \in SUBSET Mask /\ ch.invex \in SUBSET Mask
      /\ ch.numbed \in Int
  BY <1>2 DEF Chan
<1>4. S \in SUBSET Mask
  BY <1>3 DEF ListOf
<1>5. /\ IsFiniteSet(S) /\ Cardinality(S \ {m}) = Cardinality(S) - 1
      /\ Cardinality(S \ {m}) \in Nat /\ Cardinality(S) \in Nat
  <2>1. IsFiniteSet(S) /\ Cardinality(S \ {m}) = Cardinality(S) - 1
    BY <1>4, <1>1, MasksFinite, FS_RemoveElement
  <2>2. S \ {m} \in SUBSET Mask
    BY <1>4
  <2> QED
    BY <1>4, <2>1, <2>2, MasksFinite
<1>6. /\ kind = "b" => S = ch.ban
      /\ kind = "e" => S = ch.exempt
      /\ kind = "I" => S = ch.invex
  BY DEF ListOf
<1>7. /\ Cardinality(ch.ban) \in Nat /\ Cardinality(ch.exempt) \in Nat
      /\ Cardinality(ch.invex) \in Nat
  BY <1>3, MasksFinite
<1>8. /\ d.ban = (IF kind = "b" THEN S \ {m} ELSE ch.ban)
      /\ d.exempt = (IF kind = "e" THEN S \ {m} ELSE ch.exempt)
      /\ d.invex = (IF kind = "I" THEN S \ {m} ELSE ch.invex)
      /\ d.numbed = n
  BY <1>2 DEF SetList, Chan
<1> HIDE DEF d, S, ch
<1>9. MasksRight(d)
  <2>1. n = ch.numbed - 1
    BY <1>2, <1>3, <1>5, <1>6, <1>7 DEF MasksRight
  <2> QED
    BY <1>2, <1>5, <1>6, <1>7, <1>8, <2>1 DEF MasksRight
<1>10. ASSUME NEW b \in Channel PROVE MasksRight(chan'[b])
  BY <1>1, <1>2, <1>9 DEF MasksCounted, MasksRight
<1> QED
  BY <1>10 DEF MasksCounted, MasksRight

\* Every other step keeps the masks of a channel or frees it with them.
LEMMA RemoveFromMasks ==
    ASSUME IndInv, MasksCounted, NEW u \in Client, NEW cs, RemoveFrom(u, cs)
    PROVE  MasksCounted'
<1>1. chan' = [c \in Channel |-> IF c \in cs THEN RemoveMember(chan[c], u) ELSE chan[c]]
  BY DEF RemoveFrom
<1>2. ASSUME NEW c \in Channel
      PROVE  SameMasks(chan'[c], chan[c]) \/ SameMasks(chan'[c], NoChan)
  <2>1. chan[c] \in Chan
    BY DEF IndInv, TypeOK
  <2>2. CASE c \in cs
    BY <1>1, <2>1, <2>2, MasksKept, SameMasksSelf
  <2>3. CASE c \notin cs
    BY <1>1, <2>3, SameMasksSelf
  <2> QED
    BY <2>2, <2>3
<1> QED
  BY <1>2, MasksCarried

LEMMA ExitMasks ==
    ASSUME IndInv, MasksCounted, NEW u \in Client, ExitOneClient(u)
    PROVE  MasksCounted'
<1> DEFINE cs == user[u].channel
           left == Invited(user[u].invited)
           d(c) == IF c \in cs THEN RemoveMember(chan[c], u) ELSE chan[c]
           us(c) == IF c \in left THEN {u} ELSE {}
<1>1. chan' = [c \in Channel |-> Uninvite(d(c), us(c))]
  BY DEF ExitOneClient
<1>2. ASSUME NEW c \in Channel
      PROVE  SameMasks(chan'[c], chan[c]) \/ SameMasks(chan'[c], NoChan)
  <2>1. chan[c] \in Chan
    BY DEF IndInv, TypeOK
  <2>2. d(c) \in Chan
    BY <2>1, RemoveFields
  <2>3. SameMasks(d(c), chan[c]) \/ d(c) = NoChan
    BY <2>1, MasksKept, SameMasksSelf
  <2> HIDE DEF d, us
  <2>4. SameMasks(Uninvite(d(c), us(c)), d(c))
    BY <2>2, MasksKept
  <2>5. chan'[c] = Uninvite(d(c), us(c))
    BY <1>1
  <2> QED
    BY <2>3, <2>4, <2>5, SameMasksTrans
<1> QED
  BY <1>2, MasksCarried

\* One channel is replaced by one with the same masks.
LEMMA OneChannelMasks ==
    ASSUME IndInv, MasksCounted, NEW c \in Channel, NEW d,
           chan' = [chan EXCEPT ![c] = d],
           SameMasks(d, chan[c]) \/ SameMasks(d, NoChan)
    PROVE  MasksCounted'
<1>1. chan \in [Channel -> Chan]
  BY DEF IndInv, TypeOK
<1> QED
  BY <1>1, MasksCarried, SameMasksSelf

LEMMA NextMasks ==
    ASSUME IndInv, MasksCounted, Next
    PROVE  MasksCounted'
<1>1. ASSUME UNCHANGED chan PROVE MasksCounted'
  BY <1>1, MasksCarried, SameMasksSelf
<1>2. ASSUME NEW c \in Channel PROVE chan[c] \in Chan
  BY ChanTypes
<1>3. ASSUME NEW u \in Client, NEW c \in Channel, Join(u, c)
      PROVE  MasksCounted'
  <2>1. CASE JoinExisting(u, c)
    <3> DEFINE d == AddUserToChannel(chan[c], {u}, {})
    <3>1. chan' = [chan EXCEPT ![c] = Uninvite(d, {u})]
      BY <2>1 DEF JoinExisting
    <3>2. d \in Chan /\ SameMasks(d, chan[c])
      <4>1. {u} \in SUBSET Client /\ {} \in SUBSET Client
        OBVIOUS
      <4>2. Cardinality({u}) \in Nat
        BY <4>1, ClientsFinite
      <4>3. d \in Chan
        BY <1>2, <4>1, <4>2, AddUserFields
      <4> QED
        BY <1>2, <4>3, MasksKept
    <3> HIDE DEF d
    <3>3. SameMasks(Uninvite(d, {u}), chan[c])
      BY <3>2, MasksKept, SameMasksTrans
    <3> QED
      BY <3>1, <3>3, OneChannelMasks
  <2>2. CASE JoinNew(u, c)
    <3> DEFINE d == AddUserToChannel(NewChan, {u}, {u})
    <3>1. chan' = [chan EXCEPT ![c] = d]
      BY <2>2 DEF JoinNew
    <3>2. SameMasks(d, NoChan)
      BY NoChanFields, NoMasks, MasksKept, SameMasksTrans
    <3> HIDE DEF d
    <3> QED
      BY <3>1, <3>2, OneChannelMasks
  <2> QED
    BY <1>3, <2>1, <2>2 DEF Join
<1>4. ASSUME SjoinStep PROVE MasksCounted'
  <2>1. PICK us \in SUBSET (alive \ Local), c \in Channel, opped \in BOOLEAN,
             wins \in {"theirs", "ours", "both"}, plusI \in BOOLEAN,
             limit \in Limits :
                Sjoin(us, c, opped, wins, plusI, limit)
    BY <1>4 DEF SjoinStep
  <2> DEFINE old == IF chan[c].exists THEN chan[c] ELSE NewChan
             d == SjoinModes(old, wins, plusI, limit)
             new == Joining(us, c)
             os == IF opped THEN new ELSE {}
  <2>2. chan' = [chan EXCEPT ![c] = AddUserToChannel(d, new, os)]
    BY <2>1 DEF Sjoin
  <2>3. old \in Chan /\ (SameMasks(old, chan[c]) \/ SameMasks(old, NoChan))
    BY <1>2, NoChanFields, NoMasks, SameMasksSelf
  <2> HIDE DEF old
  <2>4. SameMasks(d, old)
    BY <2>3, MasksKept
  <2>5. d \in Chan
    BY <2>3, MaskAssumption DEF SjoinModes, Chan
  <2> HIDE DEF d, new, os
  <2>6. SameMasks(AddUserToChannel(d, new, os), d)
    BY <2>5, MasksKept
  <2> QED
    BY <2>2, <2>3, <2>4, <2>6, SameMasksTrans, OneChannelMasks
<1>5. ASSUME NEW by \in Client, NEW u \in Client, NEW c \in Channel,
             Invite(by, u, c)
      PROVE  MasksCounted'
  <2>1. AddInvite(u, c)
    BY <1>5 DEF Invite
  <2>2. ASSUME NEW b \in Channel PROVE SameMasks(chan'[b], chan[b])
    <3>1. \/ chan'[b] = [chan[b] EXCEPT !.invites = chan[b].invites \cup {u}]
          \/ chan'[b] = Uninvite(chan[b], {u})
          \/ chan'[b] = chan[b]
      BY <2>1 DEF AddInvite
    <3>2. ASSUME NEW x PROVE SameMasks([chan[b] EXCEPT !.invites = x], chan[b])
      BY <1>2 DEF SameMasks, Chan
    <3> QED
      BY <1>2, <3>1, <3>2, MasksKept, SameMasksSelf
  <2> QED
    BY <2>2, MasksCarried
<1>6. ASSUME NEW by \in Client, NEW u \in Client, NEW c \in Channel,
             NEW add \in BOOLEAN, ModeOp(by, u, c, add)
      PROVE  MasksCounted'
  <2>1. PICK os : chan' = [chan EXCEPT ![c] = [chan[c] EXCEPT !.ops = os]]
    BY <1>6, <1>2 DEF ModeOp
  <2> QED
    BY <1>2, <2>1, MasksKept, OneChannelMasks
<1>7. ASSUME NEW by \in Client, NEW c \in Channel, NEW add \in BOOLEAN,
             ModeInviteOnly(by, c, add)
      PROVE  MasksCounted'
  <2> DEFINE q == [chan[c] EXCEPT !.inviteonly = add]
             out == IF add THEN {} ELSE chan[c].invites
  <2>1. chan' = [chan EXCEPT ![c] = Uninvite(q, out)]
    BY <1>7 DEF ModeInviteOnly
  <2>2. q \in Chan
    BY <1>2 DEF Chan
  <2>3. SameMasks(q, chan[c])
    BY <1>2, MasksKept
  <2> HIDE DEF q, out
  <2>4. SameMasks(Uninvite(q, out), chan[c])
    BY <2>2, <2>3, MasksKept, SameMasksTrans
  <2> QED
    BY <2>1, <2>4, OneChannelMasks
<1>8. ASSUME NEW by \in Client, NEW c \in Channel, NEW limit \in Limits,
             ModeLimit(by, c, limit)
      PROVE  MasksCounted'
  <2>1. chan' = [chan EXCEPT ![c] = [chan[c] EXCEPT !.limit = limit]]
    BY <1>8, <1>2 DEF ModeLimit
  <2> QED
    BY <1>2, <2>1, MasksKept, OneChannelMasks
<1>9. ASSUME NEW by \in Client, NEW c \in Channel, NEW add \in BOOLEAN,
             ModeJupe(by, c, add)
      PROVE  MasksCounted'
  <2> DEFINE q == [chan[c] EXCEPT !.juped = add]
             dead == ~add /\ chan[c].users = 0
             d == IF dead THEN Sub1FromChannel(q) ELSE q
  <2>1. chan' = [chan EXCEPT ![c] = d]
    BY <1>9 DEF ModeJupe
  <2>2. q \in Chan
    BY <1>2 DEF Chan
  <2>3. SameMasks(q, chan[c])
    BY <1>2, MasksKept
  <2> HIDE DEF q, dead
  <2>4. SameMasks(d, q) \/ d = NoChan
    BY <2>2, MasksKept, SameMasksSelf
  <2> HIDE DEF d
  <2> QED
    BY <2>1, <2>3, <2>4, SameMasksSelf, SameMasksTrans, OneChannelMasks
<1>10. ASSUME NEW c \in Channel, NEW on \in BOOLEAN, RehashJupe(c, on)
       PROVE  MasksCounted'
  <2> DEFINE old == IF chan[c].exists THEN chan[c] ELSE NewChan
             d == [old EXCEPT !.juped = on]
  <2>1. chan' = [chan EXCEPT ![c] = d]
    BY <1>10 DEF RehashJupe
  <2>2. old \in Chan /\ (SameMasks(old, chan[c]) \/ SameMasks(old, NoChan))
    BY <1>2, NoChanFields, NoMasks, SameMasksSelf
  <2> HIDE DEF old
  <2>3. SameMasks(d, old)
    BY <2>2, MasksKept
  <2> HIDE DEF d
  <2> QED
    BY <2>1, <2>2, <2>3, SameMasksTrans, OneChannelMasks
<1>11. ASSUME NEW u \in Client,
              \/ Register(u) \/ Oper(u) \/ Deoper(u) \/ ExitOneClient(u)
              \/ PartAll(u)
       PROVE  MasksCounted'
  BY <1>11, <1>1, ExitMasks, RemoveFromMasks
     DEF Register, Oper, Deoper, PartAll
<1>12. ASSUME NEW u \in Client, NEW c \in Channel, Part(u, c)
       PROVE  MasksCounted'
  BY <1>12, RemoveFromMasks DEF Part
<1>13. ASSUME NEW by \in Client, NEW u \in Client, NEW c \in Channel,
              Kick(by, u, c)
       PROVE  MasksCounted'
  BY <1>13, RemoveFromMasks DEF Kick
<1>14. ASSUME ModeStep PROVE MasksCounted'
  BY <1>14, <1>6, <1>7, <1>8, <1>9, AddMaskCounted, DelMaskCounted DEF ModeStep
<1> QED
  BY <1>3, <1>4, <1>5, <1>10, <1>11, <1>12, <1>13, <1>14 DEF Next

-----------------------------------------------------------------------------
(* Invitations make a list of bounded length                               *)

\* A set of numbers has a least one.
LEMMA LeastNat ==
    ASSUME NEW N \in SUBSET Nat, N # {}
    PROVE  \E n \in N : \A k \in N : n <= k
<1> DEFINE R == {p \in Nat \X Nat : p[1] < p[2]}
<1>1. IsWellFoundedOn(R, Nat)
  BY NatLessThanWellFounded DEF OpToRel
<1>2. \A j, k \in Nat : j < k => <<j, k>> \in R
  OBVIOUS
<1> HIDE DEF R
<1>3. N \subseteq Nat
  OBVIOUS
<1>4. PICK n \in N : \A k \in N : ~ (<<k, n>> \in R)
  BY <1>1, <1>3, WFMin, Zenon
<1>5. ASSUME NEW k \in N PROVE n <= k
  <2>1. n \in Nat /\ k \in Nat
    BY <1>3, <1>4
  <2>2. ~(k < n)
    BY <1>2, <1>4, <2>1
  <2> QED
    BY <2>1, <2>2
<1> QED
  BY <1>4, <1>5

\* A list of invitations: an order, as long as add_invite lets it be.
ListOK(inv) ==
    /\ inv \in SUBSET (Channel \X Channel)
    /\ Ordered(inv)
    /\ \A a, b \in Invited(inv) :
          /\ <<a, b>> \in inv \/ <<b, a>> \in inv
          /\ <<a, b>> \in inv /\ <<b, a>> \in inv => a = b
    /\ \A a, b, d \in Invited(inv) :
          <<a, b>> \in inv /\ <<b, d>> \in inv => <<a, d>> \in inv
    /\ Cardinality(Invited(inv)) <= MaxChannels

Lists == \A u \in Client : ListOK(user[u].invited)

LEMMA InvitedFinite ==
    ASSUME NEW inv
    PROVE  /\ Invited(inv) \in SUBSET Channel /\ IsFiniteSet(Invited(inv))
           /\ Cardinality(Invited(inv)) \in Nat
<1>1. Invited(inv) \in SUBSET Channel
  BY DEF Invited
<1> QED
  BY <1>1, ChannelsFinite

\* A nonempty list has a head.
LEMMA OldestIsThere ==
    ASSUME NEW inv, ListOK(inv), Invited(inv) # {}
    PROVE  Oldest(inv) \in Invited(inv)
<1> DEFINE S == Invited(inv)
           Before(a) == {b \in S : <<b, a>> \in inv}
           N == {Cardinality(Before(a)) : a \in S}
<1>1. ASSUME NEW a \in S
      PROVE  /\ IsFiniteSet(Before(a)) /\ Cardinality(Before(a)) \in Nat
             /\ a \in Before(a)
  <2>1. Before(a) \in SUBSET Channel
    BY DEF Invited
  <2>2. a \in Before(a)
    BY DEF Invited
  <2> HIDE DEF Before
  <2> QED
    BY <2>1, <2>2, ChannelsFinite
<1>2. N \subseteq Nat /\ N # {}
  BY <1>1
<1>3. PICK n \in N : \A k \in N : n <= k
  <2> HIDE DEF N
  <2> QED
    BY <1>2, LeastNat
<1>4. \A k \in N : n <= k
  BY <1>3
<1>5. PICK a \in S : n = Cardinality(Before(a))
  BY <1>3
<1>6. ASSUME NEW b \in S, <<a, b>> \notin inv PROVE FALSE
  <2>1. <<b, a>> \in inv
    BY <1>5, <1>6 DEF ListOK
  <2>2. Before(b) \subseteq Before(a) /\ a \notin Before(b)
    <3>1. ASSUME NEW d \in Before(b) PROVE d \in Before(a)
      BY <1>5, <1>6, <2>1 DEF ListOK
    <3> QED
      BY <3>1, <1>6
  <2>3. a \in Before(a) /\ Before(a) # Before(b)
    BY <1>1, <1>5, <2>2
  <2>4. /\ IsFiniteSet(Before(a)) /\ Cardinality(Before(a)) \in Nat
        /\ Cardinality(Before(b)) \in Nat
    BY <1>1, <1>5, <1>6
  <2>5. n <= Cardinality(Before(b))
    BY <1>4, <1>6
  <2> HIDE DEF Before
  <2>6. Cardinality(Before(b)) < Cardinality(Before(a))
    BY <2>2, <2>3, <2>4, FS_Subset
  <2> QED
    BY <1>5, <2>4, <2>5, <2>6
<1> QED
  BY <1>5, <1>6 DEF Oldest

LEMMA WithoutList ==
    ASSUME NEW inv, ListOK(inv), NEW cs
    PROVE  ListOK(Without(inv, cs))
<1> DEFINE w == Without(inv, cs)
<1>1. /\ w \in SUBSET (Channel \X Channel) /\ Ordered(w)
      /\ Invited(w) = Invited(inv) \ cs
  BY InvitedWithout DEF ListOK
<1>2. \A a, b \in Invited(w) : <<a, b>> \in w <=> <<a, b>> \in inv
  BY <1>1 DEF Without
<1> HIDE DEF w
<1>3. /\ \A a, b \in Invited(w) :
            /\ <<a, b>> \in w \/ <<b, a>> \in w
            /\ <<a, b>> \in w /\ <<b, a>> \in w => a = b
      /\ \A a, b, d \in Invited(w) :
            <<a, b>> \in w /\ <<b, d>> \in w => <<a, d>> \in w
  BY <1>1, <1>2 DEF ListOK
<1>4. Cardinality(Invited(w)) <= MaxChannels
  <2>1. Invited(w) \subseteq Invited(inv)
    BY <1>1
  <2>2. Cardinality(Invited(w)) <= Cardinality(Invited(inv))
    BY <2>1, InvitedFinite, FS_Subset
  <2> QED
    BY <2>2, InvitedFinite, ChannelAssumption DEF ListOK
<1> QED
  BY <1>1, <1>3, <1>4 DEF ListOK, w

LEMMA WithLastList ==
    ASSUME NEW inv, ListOK(inv), NEW c \in Channel, c \notin Invited(inv),
           Cardinality(Invited(inv)) < MaxChannels
    PROVE  ListOK(WithLast(inv, c))
<1> DEFINE w == WithLast(inv, c)
           S == Invited(inv)
<1>1. /\ w \in SUBSET (Channel \X Channel) /\ Ordered(w)
      /\ Invited(w) = S \cup {c}
  BY InvitedWithLast DEF ListOK
<1>2. \A a, b : <<a, b>> \in w <=> <<a, b>> \in inv \/ (a \in S \cup {c} /\ b = c)
  BY DEF WithLast
<1>3. \A a, b : <<a, b>> \in inv => a \in S /\ b \in S
  BY DEF ListOK, Ordered
<1> HIDE DEF w
<1>4. \A a, b \in Invited(w) :
        /\ <<a, b>> \in w \/ <<b, a>> \in w
        /\ <<a, b>> \in w /\ <<b, a>> \in w => a = b
  BY <1>1, <1>2, <1>3 DEF ListOK
<1>5. \A a, b, d \in Invited(w) :
        <<a, b>> \in w /\ <<b, d>> \in w => <<a, d>> \in w
  BY <1>1, <1>2, <1>3 DEF ListOK
<1>6. Cardinality(Invited(w)) <= MaxChannels
  <2>1. Cardinality(S \cup {c}) = Cardinality(S) + 1
    BY InvitedFinite, FS_AddElement
  <2> QED
    BY <1>1, <2>1, InvitedFinite, ChannelAssumption
<1> QED
  BY <1>1, <1>4, <1>5, <1>6 DEF ListOK, w

LEMMA AddInviteList ==
    ASSUME NEW u \in Client, NEW c \in Channel, ListOK(user[u].invited),
           user \in [Client -> UserRec], AddInvite(u, c)
    PROVE  ListOK(user'[u].invited) /\ \A v \in Client : v # u => user'[v] = user[v]
<1> DEFINE inv == user[u].invited
           rest == Without(inv, {c})
           full == Cardinality(Invited(rest)) >= MaxChannels
           drop == IF full THEN {Oldest(rest)} ELSE {}
           kept == Without(rest, drop)
<1>1. user' = [user EXCEPT ![u].invited = WithLast(kept, c)]
  BY DEF AddInvite
<1>2. inv \in SUBSET (Channel \X Channel) /\ ListOK(inv)
  BY DEF ListOK
<1> HIDE DEF inv
<1>3. ListOK(rest) /\ Invited(rest) = Invited(inv) \ {c}
  BY <1>2, WithoutList, InvitedWithout
<1> HIDE DEF rest
<1>4. /\ ListOK(kept) /\ Invited(kept) = Invited(rest) \ drop
      /\ c \notin Invited(kept)
  <2>1. rest \in SUBSET (Channel \X Channel)
    BY <1>3 DEF ListOK
  <2>2. ListOK(kept) /\ Invited(kept) = Invited(rest) \ drop
    BY <1>3, <2>1, WithoutList, InvitedWithout
  <2> QED
    BY <1>3, <2>2
<1>5. Cardinality(Invited(kept)) < MaxChannels
  <2>1. /\ Cardinality(Invited(rest)) \in Nat /\ IsFiniteSet(Invited(rest))
        /\ Cardinality(Invited(rest)) <= MaxChannels
    BY <1>3, InvitedFinite DEF ListOK
  <2>2. CASE ~full
    <3>1. Invited(kept) = Invited(rest)
      BY <1>4, <2>2
    <3> QED
      BY <2>1, <2>2, <3>1, ChannelAssumption
  <2>3. CASE full
    <3>1. Cardinality(Invited(rest)) = MaxChannels /\ MaxChannels > 0
      BY <2>1, <2>3, ChannelAssumption
    <3>2. Invited(rest) # {}
      BY <3>1, FS_EmptySet
    <3>3. Oldest(rest) \in Invited(rest)
      BY <1>3, <3>2, OldestIsThere
    <3>4. Cardinality(Invited(rest) \ {Oldest(rest)}) = Cardinality(Invited(rest)) - 1
      BY <2>1, <3>3, FS_RemoveElement
    <3>5. Invited(kept) = Invited(rest) \ {Oldest(rest)}
      BY <1>4, <2>3
    <3> QED
      BY <2>1, <3>1, <3>4, <3>5, ChannelAssumption
  <2> QED
    BY <2>2, <2>3
<1> HIDE DEF kept
<1>6. ListOK(WithLast(kept, c))
  BY <1>4, <1>5, WithLastList
<1>7. user'[u].invited = WithLast(kept, c)
  BY <1>1 DEF UserRec
<1> QED
  BY <1>1, <1>6, <1>7

\* Every list is the old one, a part of it, or a new client's.
LEMMA ListsCarried ==
    ASSUME Lists,
           \A v \in Client :
              \/ user'[v].invited = user[v].invited
              \/ \E cs : user'[v].invited = Without(user[v].invited, cs)
    PROVE  Lists'
  BY WithoutList DEF Lists

LEMMA NoInvites == ListOK({})
<1>1. Invited({}) = {}
  BY DEF Invited
<1>2. Cardinality({}) = 0
  BY FS_EmptySet
<1> QED
  BY <1>1, <1>2, ChannelAssumption DEF ListOK, Ordered

LEMMA RemoveFromLists ==
    ASSUME IndInv, Lists, NEW u \in Client, NEW cs \in SUBSET Channel, RemoveFrom(u, cs)
    PROVE  Lists'
<1>1. ASSUME NEW v \in Client
      PROVE  \E ds : user'[v].invited = Without(user[v].invited, ds)
  <2> DEFINE r == IF v = u THEN LeaveChannels(user[u], cs) ELSE user[v]
             ds == Uninvited(v, cs)
  <2>1. user'[v] = DropInvites(r, ds)
    BY DEF RemoveFrom
  <2>2. user[v] \in UserRec /\ Cardinality(cs) \in Nat
    BY ChanTypes, ChannelsFinite
  <2>3. r \in UserRec /\ r.invited = user[v].invited
    BY <2>2, UserFields
  <2> HIDE DEF r, ds
  <2> QED
    BY <2>1, <2>3, UserFields
<1> QED
  BY <1>1, ListsCarried

LEMMA NextLists ==
    ASSUME IndInv, Lists, Next
    PROVE  Lists'
<1>1. user \in [Client -> UserRec] /\ \A v \in Client : user[v] \in UserRec
  BY ChanTypes DEF IndInv, TypeOK
<1>2. ASSUME UNCHANGED user PROVE Lists'
  BY <1>2, ListsCarried
<1>3. ASSUME NEW u \in Client, Register(u) PROVE Lists'
  <2>1. \A v \in Client : user'[v] = IF v = u THEN NewUser ELSE user[v]
    BY <1>1, <1>3 DEF Register
  <2>2. ListOK(NewUser.invited)
    BY NoInvites DEF NewUser
  <2> QED
    BY <2>1, <2>2 DEF Lists
<1>4. ASSUME NEW u \in Client, Oper(u) \/ Deoper(u) PROVE Lists'
  <2>1. \A v \in Client : user'[v].invited = user[v].invited
    BY <1>1, <1>4 DEF Oper, Deoper, UserRec
  <2> QED
    BY <2>1, ListsCarried
<1>5. ASSUME NEW u \in Client, ExitOneClient(u) PROVE Lists'
  <2> DEFINE cs == user[u].channel
             left == Invited(user[u].invited)
  <2>1. user' = [v \in Client |->
             IF v = u THEN DropInvites(LeaveChannels(user[u], cs), left)
             ELSE DropInvites(user[v], Uninvited(v, cs))]
    BY <1>5 DEF ExitOneClient
  <2>2. /\ LeaveChannels(user[u], cs) \in UserRec
        /\ LeaveChannels(user[u], cs).invited = user[u].invited
    <3>1. Cardinality(cs) \in Nat
      BY ChanTypes, ChannelsFinite
    <3> QED
      BY <1>1, <3>1, UserFields
  <2>3. ASSUME NEW v \in Client
        PROVE  \E ds : user'[v].invited = Without(user[v].invited, ds)
    <3>1. CASE v = u
      BY <2>1, <2>2, <3>1, UserFields
    <3>2. CASE v # u
      BY <2>1, <1>1, <3>2, UserFields
    <3> QED
      BY <3>1, <3>2
  <2> QED
    BY <2>3, ListsCarried
<1>6. ASSUME NEW u \in Client, NEW c \in Channel,
             user' = [user EXCEPT ![u] = DropInvites(AddChannel(@, c), {c})]
      PROVE  Lists'
  <2>1. ASSUME NEW v \in Client
        PROVE  \/ user'[v].invited = user[v].invited
               \/ user'[v].invited = Without(user[v].invited, {c})
    BY <1>1, <1>6, UserFields
  <2> QED
    BY <2>1, ListsCarried
<1>7. ASSUME NEW u \in Client, NEW c \in Channel, Join(u, c) PROVE Lists'
  BY <1>6, <1>7 DEF Join, JoinExisting, JoinNew
<1>8. ASSUME SjoinStep PROVE Lists'
  <2>1. PICK c \in Channel : \E new :
          user' = [u \in Client |-> IF u \in new THEN AddChannel(user[u], c)
                                    ELSE user[u]]
    BY <1>8 DEF SjoinStep, Sjoin
  <2>3. PICK new :
          user' = [u \in Client |-> IF u \in new THEN AddChannel(user[u], c)
                                    ELSE user[u]]
    BY <2>1
  <2>2. \A v \in Client : user'[v].invited = user[v].invited
    BY <1>1, <2>3, UserFields
  <2> QED
    BY <2>2, ListsCarried
<1>9. ASSUME NEW u \in Client, NEW c \in Channel,
             Part(u, c) \/ \E by \in Client : Kick(by, u, c)
      PROVE  Lists'
  <2>1. RemoveFrom(u, {c}) /\ {c} \in SUBSET Channel
    BY <1>9 DEF Part, Kick
  <2> QED
    BY <2>1, RemoveFromLists
<1>10. ASSUME NEW u \in Client, PartAll(u) PROVE Lists'
  <2>1. RemoveFrom(u, user[u].channel) /\ user[u].channel \in SUBSET Channel
    BY <1>10, ChanTypes DEF PartAll
  <2> QED
    BY <2>1, RemoveFromLists
<1>11. ASSUME NEW by \in Client, NEW u \in Client, NEW c \in Channel,
              Invite(by, u, c)
       PROVE  Lists'
  <2>1. AddInvite(u, c)
    BY <1>11 DEF Invite
  <2> QED
    BY <1>1, <2>1, AddInviteList DEF Lists
<1>12. ASSUME NEW c \in Channel, NEW out,
              user' = [u \in Client |->
                 IF u \in out THEN DropInvites(user[u], {c}) ELSE user[u]]
       PROVE  Lists'
  <2>1. ASSUME NEW v \in Client
        PROVE  \/ user'[v].invited = user[v].invited
               \/ user'[v].invited = Without(user[v].invited, {c})
    BY <1>1, <1>12, UserFields
  <2> QED
    BY <2>1, ListsCarried
<1>13. ASSUME NEW by \in Client, NEW c \in Channel, NEW add \in BOOLEAN,
              ModeInviteOnly(by, c, add)
       PROVE  Lists'
  BY <1>12, <1>13 DEF ModeInviteOnly
<1>14. ASSUME NEW by \in Client, NEW c \in Channel, NEW add \in BOOLEAN,
              ModeJupe(by, c, add)
       PROVE  Lists'
  <2> DEFINE dead == ~add /\ chan[c].users = 0
             out == IF dead THEN chan[c].invites ELSE {}
  <2>1. user' = [u \in Client |->
             IF dead /\ u \in chan[c].invites THEN DropInvites(user[u], {c})
             ELSE user[u]]
    BY <1>14 DEF ModeJupe
  <2>2. user' = [u \in Client |->
             IF u \in out THEN DropInvites(user[u], {c}) ELSE user[u]]
    BY <2>1
  <2> HIDE DEF dead, out
  <2> QED
    BY <2>2, <1>12
<1>15. ASSUME ModeStep PROVE Lists'
  <2>1. ASSUME NEW by \in Client, NEW c \in Channel,
               \/ \E u \in Client, add \in BOOLEAN : ModeOp(by, u, c, add)
               \/ \E limit \in Limits : ModeLimit(by, c, limit)
               \/ \E kind \in {"b", "e", "I"}, m \in Mask :
                     AddMask(by, c, kind, m) \/ DelMask(by, c, kind, m)
        PROVE  Lists'
    BY <1>2, <2>1 DEF ModeOp, ModeLimit, AddMask, DelMask
  <2> QED
    BY <1>13, <1>14, <1>15, <2>1 DEF ModeStep
<1>16. ASSUME NEW c \in Channel, NEW on \in BOOLEAN, RehashJupe(c, on)
       PROVE  Lists'
  BY <1>2, <1>16 DEF RehashJupe
<1> QED
  BY <1>2, <1>3, <1>4, <1>5, <1>7, <1>8, <1>9, <1>10, <1>11, <1>15,
     <1>16 DEF Next

-----------------------------------------------------------------------------
(* Who enters a channel with a limit                                       *)

\* No channel gains a local member.
NoNewLocal ==
    \A c \in Channel : chan'[c].members \cap Local \subseteq chan[c].members

LEMMA NoNewLocalOne ==
    ASSUME IndInv, NEW c \in Channel, NEW d, chan' = [chan EXCEPT ![c] = d],
           d.members \cap Local \subseteq chan[c].members
    PROVE  NoNewLocal
<1>1. chan \in [Channel -> Chan]
  BY DEF IndInv, TypeOK
<1> QED
  BY <1>1 DEF NoNewLocal

LEMMA RemovedMembers ==
    ASSUME NEW ch \in Chan, NEW u
    PROVE  RemoveMember(ch, u).members \subseteq ch.members
<1>1. ch.users \in Int /\ ch.juped \in BOOLEAN
  BY DEF Chan
<1>2. ch.users > 1 \/ (ch.users <= 1 /\ ch.juped) \/ (ch.users <= 1 /\ ~ch.juped)
  BY <1>1
<1> DEFINE r == RemoveMember(ch, u)
<1>3. /\ ch.users > 1 => r.members = ch.members \ {u}
      /\ ch.users <= 1 /\ ch.juped => r.members = ch.members \ {u}
      /\ ch.users <= 1 /\ ~ch.juped => r = NoChan
  BY RemoveFields
<1> HIDE DEF r
<1>4. r.members \subseteq ch.members
  BY <1>2, <1>3, NoChanFields
<1> QED
  BY <1>4 DEF r

LEMMA RemoveFromNoNewLocal ==
    ASSUME IndInv, NEW u \in Client, NEW cs, RemoveFrom(u, cs)
    PROVE  NoNewLocal
<1> SUFFICES ASSUME NEW c \in Channel
             PROVE  chan'[c].members \subseteq chan[c].members
  BY DEF NoNewLocal
<1>1. chan'[c] = IF c \in cs THEN RemoveMember(chan[c], u) ELSE chan[c]
  BY DEF RemoveFrom
<1>2. chan[c] \in Chan
  BY ChanTypes
<1> QED
  BY <1>1, <1>2, RemovedMembers

\* A local client enters a channel by JOIN alone.
LEMMA OnlyJoin ==
    ASSUME IndInv, Next
    PROVE  NoNewLocal \/ \E u \in Client, c \in Channel : Join(u, c)
<1>1. ASSUME UNCHANGED chan PROVE NoNewLocal
  BY <1>1 DEF NoNewLocal
<1>2. \A c \in Channel : chan[c] \in Chan
  BY ChanTypes
<1>3. ASSUME NEW u \in Client, ExitOneClient(u) PROVE NoNewLocal
  <2> SUFFICES ASSUME NEW c \in Channel
               PROVE  chan'[c].members \subseteq chan[c].members
    BY DEF NoNewLocal
  <2> DEFINE d == IF c \in user[u].channel THEN RemoveMember(chan[c], u) ELSE chan[c]
             us == IF c \in Invited(user[u].invited) THEN {u} ELSE {}
  <2>1. chan'[c] = Uninvite(d, us)
    BY <1>3 DEF ExitOneClient
  <2>2. d \in Chan
    BY <1>2, RemoveFields
  <2>3. d.members \subseteq chan[c].members
    BY <1>2, RemovedMembers
  <2> HIDE DEF d, us
  <2> QED
    BY <2>1, <2>2, <2>3, UninviteFields
<1>4. ASSUME SjoinStep PROVE NoNewLocal
  <2>1. PICK us \in SUBSET (alive \ Local), c \in Channel, opped \in BOOLEAN,
             wins \in Winners, plusI \in BOOLEAN, limit \in Limits :
                Sjoin(us, c, opped, wins, plusI, limit)
    BY <1>4 DEF SjoinStep, Winners
  <2> DEFINE old == IF chan[c].exists THEN chan[c] ELSE NewChan
             d == SjoinModes(old, wins, plusI, limit)
             new == Joining(us, c)
             os == IF opped THEN new ELSE {}
             e == AddUserToChannel(d, new, os)
  <2>2. chan' = [chan EXCEPT ![c] = e]
    BY <2>1 DEF Sjoin
  <2>3. old \in Chan /\ old.members \subseteq chan[c].members
    BY <1>2, NoChanFields
  <2> HIDE DEF old
  <2>4. d \in Chan /\ d.members = old.members
    BY <2>3, SjoinModesFields
  <2>5. /\ new \in SUBSET Client /\ new \cap Local = {} /\ os \in SUBSET Client
        /\ Cardinality(new) \in Nat
    <3>1. new \in SUBSET Client /\ new \cap Local = {} /\ os \in SUBSET Client
      BY DEF Joining, IndInv, TypeOK
    <3> QED
      BY <3>1, ClientsFinite
  <2> HIDE DEF d, new, os
  <2>6. e.members = d.members \cup new
    BY <2>4, <2>5, AddUserFields
  <2> HIDE DEF e
  <2> QED
    BY <2>2, <2>3, <2>4, <2>5, <2>6, NoNewLocalOne
<1>5. ASSUME NEW by \in Client, NEW u \in Client, NEW c \in Channel,
             Invite(by, u, c)
      PROVE  NoNewLocal
  <2>1. AddInvite(u, c)
    BY <1>5 DEF Invite
  <2>2. ASSUME NEW b \in Channel PROVE chan'[b].members = chan[b].members
    <3> DEFINE e == [chan[b] EXCEPT !.invites = chan[b].invites \cup {u}]
    <3>1. chan'[b] = e \/ chan'[b] = Uninvite(chan[b], {u}) \/ chan'[b] = chan[b]
      BY <2>1 DEF AddInvite
    <3>2. e.members = chan[b].members
      BY <1>2 DEF Chan
    <3> HIDE DEF e
    <3> QED
      BY <1>2, <3>1, <3>2, UninviteFields
  <2> QED
    BY <2>2 DEF NoNewLocal
<1>6. ASSUME NEW by \in Client, NEW u \in Client, NEW c \in Channel,
             NEW add \in BOOLEAN, ModeOp(by, u, c, add)
      PROVE  NoNewLocal
  <2>1. PICK os : chan' = [chan EXCEPT ![c] = [chan[c] EXCEPT !.ops = os]]
    BY <1>6, <1>2 DEF ModeOp
  <2>2. [chan[c] EXCEPT !.ops = os].members = chan[c].members
    BY <1>2 DEF Chan
  <2> QED
    BY <2>1, <2>2, NoNewLocalOne
<1>7. ASSUME NEW by \in Client, NEW c \in Channel, NEW add \in BOOLEAN,
             ModeInviteOnly(by, c, add)
      PROVE  NoNewLocal
  <2> DEFINE q == [chan[c] EXCEPT !.inviteonly = add]
             out == IF add THEN {} ELSE chan[c].invites
  <2>1. chan' = [chan EXCEPT ![c] = Uninvite(q, out)]
    BY <1>7 DEF ModeInviteOnly
  <2>2. q \in Chan /\ q.members = chan[c].members
    BY <1>2 DEF Chan
  <2> HIDE DEF q, out
  <2>3. Uninvite(q, out).members = chan[c].members
    BY <2>2, UninviteFields
  <2> QED
    BY <2>1, <2>3, NoNewLocalOne
<1>8. ASSUME NEW by \in Client, NEW c \in Channel, NEW limit \in Limits,
             ModeLimit(by, c, limit)
      PROVE  NoNewLocal
  <2>1. chan' = [chan EXCEPT ![c] = [chan[c] EXCEPT !.limit = limit]]
    BY <1>8, <1>2 DEF ModeLimit
  <2>2. [chan[c] EXCEPT !.limit = limit].members = chan[c].members
    BY <1>2 DEF Chan
  <2> QED
    BY <2>1, <2>2, NoNewLocalOne
<1>9. ASSUME NEW by \in Client, NEW c \in Channel, NEW add \in BOOLEAN,
             ModeJupe(by, c, add)
      PROVE  NoNewLocal
  <2> DEFINE q == [chan[c] EXCEPT !.juped = add]
             dead == ~add /\ chan[c].users = 0
             d == IF dead THEN Sub1FromChannel(q) ELSE q
  <2>1. chan' = [chan EXCEPT ![c] = d]
    BY <1>9 DEF ModeJupe
  <2>2. /\ q \in Chan /\ q.members = chan[c].members /\ q.users \in Int
        /\ q.juped \in BOOLEAN
    BY <1>2 DEF Chan
  <2> HIDE DEF q, dead
  <2>3. Sub1FromChannel(q).members \subseteq q.members
    BY <2>2, Sub1Fields, NoChanFields
  <2>4. d.members \subseteq chan[c].members
    BY <2>2, <2>3
  <2> HIDE DEF d
  <2> QED
    BY <2>1, <2>4, NoNewLocalOne
<1>10. ASSUME NEW by \in Client, NEW c \in Channel, NEW kind \in {"b", "e", "I"},
              NEW m \in Mask, AddMask(by, c, kind, m) \/ DelMask(by, c, kind, m)
       PROVE  NoNewLocal
  <2>1. PICK S, n : chan' = [chan EXCEPT ![c] = SetList(chan[c], kind, S, n)]
    BY <1>10, <1>2 DEF AddMask, DelMask
  <2>2. SetList(chan[c], kind, S, n).members = chan[c].members
    BY <1>2 DEF Chan, SetList
  <2> QED
    BY <2>1, <2>2, NoNewLocalOne
<1>11. ASSUME NEW c \in Channel, NEW on \in BOOLEAN, RehashJupe(c, on)
       PROVE  NoNewLocal
  <2> DEFINE old == IF chan[c].exists THEN chan[c] ELSE NewChan
             d == [old EXCEPT !.juped = on]
  <2>1. chan' = [chan EXCEPT ![c] = d]
    BY <1>11 DEF RehashJupe
  <2>2. old \in Chan /\ old.members \subseteq chan[c].members
    BY <1>2, NoChanFields
  <2> HIDE DEF old
  <2>3. d.members = old.members
    BY <2>2 DEF Chan
  <2> HIDE DEF d
  <2> QED
    BY <2>1, <2>2, <2>3, NoNewLocalOne
<1>12. ASSUME NEW u \in Client, Register(u) \/ Oper(u) \/ Deoper(u) \/ PartAll(u)
       PROVE  NoNewLocal
  BY <1>12, <1>1, RemoveFromNoNewLocal DEF Register, Oper, Deoper, PartAll
<1>13. ASSUME NEW u \in Client, NEW c \in Channel,
              Part(u, c) \/ \E by \in Client : Kick(by, u, c)
       PROVE  NoNewLocal
  BY <1>13, RemoveFromNoNewLocal DEF Part, Kick
<1>14. ASSUME ModeStep PROVE NoNewLocal
  BY <1>6, <1>7, <1>8, <1>9, <1>10, <1>14 DEF ModeStep
<1> QED
  BY <1>3, <1>4, <1>5, <1>11, <1>12, <1>13, <1>14 DEF Next

\* can_join compares the counter, which is exact, so there is room for one more.
LEMMA JoinWithinLimit ==
    ASSUME IndInv, NEW u \in Client, NEW b \in Channel, Join(u, b),
           NEW c \in Channel, chan[c].exists, chan[c].limit # 0,
           (chan'[c].members \ chan[c].members) \cap Local # {}
    PROVE  Cardinality(chan'[c].members) <= chan[c].limit
<1>1. chan \in [Channel -> Chan] /\ chan[c] \in Chan
  BY ChanTypes DEF IndInv, TypeOK
<1>2. b = c
  BY <1>1 DEF Join, JoinExisting, JoinNew
<1>3. JoinExisting(u, c)
  BY <1>2 DEF Join, JoinNew
<1> DEFINE d == AddUserToChannel(chan[c], {u}, {})
<1>4. chan'[c] = Uninvite(d, {u}) /\ chan[c].users < chan[c].limit
  BY <1>1, <1>3 DEF JoinExisting, CanJoin
<1>5. {u} \in SUBSET Client /\ {} \in SUBSET Client /\ Cardinality({u}) \in Nat
  <2>1. {u} \in SUBSET Client /\ {} \in SUBSET Client
    OBVIOUS
  <2> QED
    BY <2>1, ClientsFinite
<1>6. d \in Chan /\ d.members = chan[c].members \cup {u}
  <2> DEFINE us == {u}
             os == {}
  <2>1. /\ d = AddUserToChannel(chan[c], us, os) /\ Cardinality(us) \in Nat
        /\ us \in SUBSET Client /\ os \in SUBSET Client
    BY <1>5
  <2> HIDE DEF d, us, os
  <2>2. d \in Chan /\ d.members = chan[c].members \cup us
    BY <1>1, <2>1, AddUserFields
  <2> QED
    BY <2>2 DEF us
<1> HIDE DEF d
<1>7. chan'[c].members = chan[c].members \cup {u} /\ u \notin chan[c].members
  <2>1. chan'[c].members = chan[c].members \cup {u}
    BY <1>4, <1>6, UninviteFields
  <2> QED
    BY <2>1
<1> DEFINE S == chan[c].members
<1>8. S \in SUBSET Client /\ Cardinality(S) = chan[c].users
  BY ChanTypes
<1>9. chan[c].users \in Int /\ chan[c].limit \in Nat
  BY <1>1, MaskAssumption DEF Chan
<1>10. Cardinality(S \cup {u}) = Cardinality(S) + 1
  <2> HIDE DEF S
  <2> QED
    BY <1>7, <1>8, ClientsFinite, FS_AddElement DEF S
<1>11. Cardinality(chan'[c].members) = chan[c].users + 1
  BY <1>7, <1>8, <1>10
<1> QED
  BY <1>4, <1>9, <1>11

-----------------------------------------------------------------------------
(* The theorems                                                            *)

LEMMA InitOK == Init => IndInv
<1> SUFFICES ASSUME Init PROVE IndInv
  OBVIOUS
<1>1. /\ chan \in [Channel -> Chan] /\ \A c \in Channel : chan[c] = NoChan
      /\ user \in [Client -> UserRec] /\ \A u \in Client : user[u] = NewUser
      /\ alive = {} /\ count = 0 /\ orphans = {}
  BY NoChanFields, NewUserFields DEF Init
<1>2. TypeOK
  BY <1>1 DEF TypeOK
<1>3. Pairs
  <2> SUFFICES ASSUME NEW u \in Client, NEW c \in Channel PROVE PairOK(u, c)
    BY DEF Pairs
  <2>1. /\ u \notin chan[c].members /\ u \notin chan[c].ops
        /\ u \notin chan[c].invites
    BY <1>1, NoChanFields
  <2>2. c \notin user[u].channel /\ c \notin Invited(user[u].invited)
    BY <1>1, NewUserFields
  <2> QED
    BY <2>1, <2>2 DEF PairOK
<1>4. Cardinality({}) = 0
  BY FS_EmptySet
<1>5. UsersRight
  BY <1>1, <1>4, NoChanFields DEF UsersRight
<1>6. JoinedRight /\ Shape
  BY <1>1, NewUserFields DEF JoinedRight, Shape
<1>7. Existing = {}
  BY <1>1, NoChanFields DEF Existing
<1>8. CountRight
  BY <1>1, <1>4, <1>7 DEF CountRight
<1> QED
  BY <1>2, <1>3, <1>5, <1>6, <1>8 DEF IndInv

LEMMA StutterOK ==
    ASSUME IndInv, UNCHANGED vars
    PROVE  IndInv'
<1>1. /\ chan' = chan /\ user' = user /\ alive' = alive /\ count' = count
      /\ orphans' = orphans
  BY DEF vars
<1>2. TypeOK'
  BY <1>1 DEF IndInv, TypeOK
<1>3. Pairs'
  <2> SUFFICES ASSUME NEW v \in Client, NEW b \in Channel PROVE PairOK(v, b)'
    BY DEF Pairs
  <2>1. PairOK(v, b)
    BY DEF IndInv, Pairs
  <2> QED
    BY <1>1, <2>1 DEF PairOK
<1>4. UsersRight' /\ JoinedRight' /\ Shape'
  BY <1>1 DEF IndInv, UsersRight, JoinedRight, Shape
<1>5. Existing' = Existing
  BY <1>1 DEF Existing
<1>6. CountRight'
  BY <1>1, <1>5 DEF IndInv, CountRight
<1> QED
  BY <1>2, <1>3, <1>4, <1>6 DEF IndInv

LEMMA NextOK ==
    ASSUME IndInv, Next
    PROVE  IndInv'
<1>1. ASSUME NEW u \in Client, Register(u) PROVE IndInv'
  BY <1>1, RegisterOK
<1>2. ASSUME NEW u \in Client, Oper(u) \/ Deoper(u) PROVE IndInv'
  <2>1. TRUE \in BOOLEAN /\ FALSE \in BOOLEAN
    OBVIOUS
  <2>2. CASE Oper(u)
    BY <2>1, <2>2, OperOK DEF Oper
  <2>3. CASE Deoper(u)
    BY <2>1, <2>3, OperOK DEF Deoper
  <2> QED
    BY <1>2, <2>2, <2>3
<1>3. ASSUME NEW u \in Client, ExitOneClient(u) PROVE IndInv'
  BY <1>3, ExitOK
<1>4. ASSUME NEW u \in Client, PartAll(u) PROVE IndInv'
  <2>1. RemoveFrom(u, user[u].channel) /\ UNCHANGED alive
    BY <1>4 DEF PartAll
  <2> QED
    BY <2>1, RemoveFromOK
<1>5. ASSUME NEW u \in Client, NEW c \in Channel, Join(u, c) PROVE IndInv'
  BY <1>5, JoinOK
<1>6. ASSUME NEW u \in Client, NEW c \in Channel, IsMember(u, c),
             RemoveFrom(u, {c}), UNCHANGED alive
      PROVE  IndInv'
  <2> DEFINE cs == {c}
  <2>1. cs \in SUBSET user[u].channel /\ RemoveFrom(u, cs)
    BY <1>6 DEF IsMember
  <2> HIDE DEF cs
  <2> QED
    BY <1>6, <2>1, RemoveFromOK
<1>7. ASSUME NEW u \in Client, NEW c \in Channel, Part(u, c) PROVE IndInv'
  BY <1>6, <1>7 DEF Part
<1>8. ASSUME NEW by \in Client, NEW u \in Client, NEW c \in Channel,
             Kick(by, u, c)
      PROVE  IndInv'
  BY <1>6, <1>8 DEF Kick
<1>9. ASSUME NEW by \in Client, NEW u \in Client, NEW c \in Channel,
             Invite(by, u, c)
      PROVE  IndInv'
  BY <1>9, InviteOK
<1>10. ASSUME SjoinStep PROVE IndInv'
  <2>1. PICK us \in SUBSET (alive \ Local), c \in Channel, opped \in BOOLEAN,
             wins \in Winners, plusI \in BOOLEAN, limit \in Limits :
                Sjoin(us, c, opped, wins, plusI, limit)
    BY <1>10 DEF SjoinStep, Winners
  <2> QED
    BY <2>1, SjoinOK
<1>11. ASSUME ModeStep PROVE IndInv'
  <2>1. PICK by \in Client, c \in Channel :
          \/ \E add \in BOOLEAN : \/ ModeInviteOnly(by, c, add)
                                  \/ ModeJupe(by, c, add)
                                  \/ \E u \in Client : ModeOp(by, u, c, add)
          \/ \E limit \in Limits : ModeLimit(by, c, limit)
          \/ \E kind \in Kinds, m \in Mask :
                AddMask(by, c, kind, m) \/ DelMask(by, c, kind, m)
    BY <1>11 DEF ModeStep, Kinds
  <2> QED
    BY <2>1, ModeInviteOnlyOK, ModeJupeOK, ModeOpOK, ModeLimitOK, AddMaskOK,
       DelMaskOK
<1>12. ASSUME NEW c \in Channel, NEW on \in BOOLEAN, RehashJupe(c, on)
       PROVE  IndInv'
  BY <1>12, RehashJupeOK
<1> QED
  BY <1>1, <1>2, <1>3, <1>4, <1>5, <1>7, <1>8, <1>9, <1>10, <1>11, <1>12
     DEF Next

\* The conjunction is inductive: it holds of the empty server and every
\* command and event of Channel keeps it.
THEOREM Inductive == Spec => []IndInv
<1>1. IndInv /\ [Next]_vars => IndInv'
  BY NextOK, StutterOK
<1> QED
  BY InitOK, <1>1, PTL DEF Spec

\* Every variable keeps its type under every command and event.
THEOREM TypeCorrect == Spec => []TypeOK
<1>1. IndInv => TypeOK
  BY DEF IndInv
<1> QED
  BY Inductive, <1>1, PTL

\* The two links of a membership come and go together (add_user_to_channel,
\* remove_user_from_channel, exit_one_client), and only members are operators.
THEOREM MembersAlwaysAgree == Spec => []MembersAgree
<1>1. IndInv => MembersAgree
  BY DEF IndInv, Pairs, PairOK, MembersAgree
<1> QED
  BY Inductive, <1>1, PTL

\* chptr->users, user->joined and Count.chan are exact, so that
\* sub1_from_channel frees a channel with its last member and never before.
THEOREM CountsAlwaysAgree == Spec => []CountsAgree
<1>1. IndInv => CountsAgree
  BY DEF IndInv, UsersRight, JoinedRight, CountRight, Existing, CountsAgree
<1> QED
  BY Inductive, <1>1, PTL

\* The two halves of an invitation come and go together, and none outlives
\* its client or its channel (add_invite, del_invite, sub1_from_channel).
THEOREM InvitesAlwaysAgree == Spec => []InvitesAgree
<1>1. IndInv => InvitesAgree
  BY DEF IndInv, Pairs, PairOK, InvitesAgree
<1> QED
  BY Inductive, <1>1, PTL

\* Nobody is invited where he is or where nobody is (m_join, m_invite,
\* sub1_from_channel).
THEOREM InvitesAlwaysPending == Spec => []InvitesPending
<1>1. IndInv => InvitesPending
  BY DEF IndInv, Pairs, PairOK, InvitesPending
<1> QED
  BY Inductive, <1>1, PTL

\* What _free_user checks holds of every client that exits: no membership, no
\* count and no invitation is left (exit_one_client).
THEOREM ExitAlwaysClean == Spec => []CleanExit
<1>1. ASSUME IndInv PROVE CleanExit
  <2> SUFFICES ASSUME NEW u \in Client \ alive
               PROVE  /\ user[u].channel = {} /\ user[u].joined = 0
                      /\ user[u].invited = {}
    BY DEF CleanExit
  <2>1. /\ user[u].channel \in SUBSET Channel /\ Ordered(user[u].invited)
        /\ user[u].joined = Cardinality(user[u].channel)
    BY <1>1, ChanTypes
  <2>2. ASSUME NEW c \in Channel
        PROVE  c \notin user[u].channel /\ c \notin Invited(user[u].invited)
    <3>1. PairOK(u, c)
      BY <1>1, ChanTypes
    <3> QED
      BY <3>1 DEF PairOK
  <2>3. user[u].channel = {} /\ Invited(user[u].invited) = {}
    BY <2>1, <2>2 DEF Invited
  <2>4. user[u].invited = {}
    BY <2>1, <2>3 DEF Ordered
  <2>5. Cardinality({}) = 0
    BY FS_EmptySet
  <2> QED
    BY <2>1, <2>3, <2>4, <2>5
<1> QED
  BY Inductive, <1>1, PTL

\* ListsAgree: members, their links and the counters agree, and an exit leaves
\* none of them behind (channel.c, exit_one_client).
THEOREM ListsAlwaysAgree == Spec => []ListsAgree
<1>1. TypeOK /\ MembersAgree /\ CountsAgree /\ CleanExit => ListsAgree
  BY DEF ListsAgree
<1> QED
  BY <1>1, TypeCorrect, MembersAlwaysAgree, CountsAlwaysAgree, ExitAlwaysClean, PTL

\* InvitesSound: an invitation is whole and still to be used (add_invite,
\* del_invite, m_join).
THEOREM InvitesAlwaysSound == Spec => []InvitesSound
<1>1. InvitesAgree /\ InvitesPending => InvitesSound
  BY DEF InvitesSound
<1> QED
  BY <1>1, InvitesAlwaysAgree, InvitesAlwaysPending, PTL

\* num_bed is the length of the three lists of a channel in every reachable
\* state, so MAXBANS bounds what local clients add (add_id, del_id).
THEOREM MasksAlwaysCounted == Spec => []MasksCounted
<1>1. Init => MasksCounted
  BY NoMasks DEF Init, MasksCounted, MasksRight
<1>2. IndInv /\ MasksCounted /\ [Next]_vars => MasksCounted'
  BY NextMasks, MasksCarried, SameMasksSelf DEF vars
<1> QED
  BY Inductive, <1>1, <1>2, PTL DEF Spec

\* user->invited is a list, at most MAXCHANNELSPERUSER long, whatever the
\* order of INVITE, JOIN, PART, KICK, -i and QUIT (add_invite, del_invite).
THEOREM InvitesAlwaysBounded == Spec => []InvitesBounded
<1>1. Init => Lists
  <2>1. NewUser.invited = {}
    BY DEF NewUser
  <2> QED
    BY <2>1, NoInvites DEF Init, Lists
<1>2. IndInv /\ Lists /\ [Next]_vars => Lists'
  BY NextLists, ListsCarried DEF vars
<1>3. Lists => InvitesBounded
  BY DEF Lists, ListOK, Ordered, InvitesBounded
<1> QED
  BY Inductive, <1>1, <1>2, <1>3, PTL DEF Spec

\* ListsBounded: the lists with a limit keep it and are counted right
\* (add_invite, add_id).
THEOREM ListsAlwaysBounded == Spec => []ListsBounded
<1>1. InvitesBounded /\ MasksCounted => ListsBounded
  BY DEF ListsBounded
<1> QED
  BY <1>1, InvitesAlwaysBounded, MasksAlwaysCounted, PTL

\* When a local client enters a channel with a limit, the members there are
\* then are within it, whatever happened before (can_join).
THEOREM LocalJoinsWithinLimit == Spec => LocalJoinWithinLimit
<1> DEFINE A == \A c \in Channel :
          /\ chan[c].exists /\ chan[c].limit # 0
          /\ (chan'[c].members \ chan[c].members) \cap Local # {}
          => Cardinality(chan'[c].members) <= chan[c].limit
<1>1. ASSUME IndInv, Next PROVE A
  BY <1>1, OnlyJoin, JoinWithinLimit DEF NoNewLocal
<1>2. IndInv /\ [Next]_vars => [A]_vars
  BY <1>1
<1> QED
  BY Inductive, <1>2, PTL DEF Spec, LocalJoinWithinLimit

=============================================================================
