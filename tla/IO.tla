---------------------------------- MODULE IO ----------------------------------
(* The connections of one server and the loop that serves them: what is       *)
(* written to a connection waits in its sendQ (behind the compression buffer  *)
(* of a zipped link), what comes from it waits in its recvQ, read_message     *)
(* polls the descriptors and goes through them one by one, and check_pings    *)
(* closes the dead and the silent.  Between two steps of the loop the peers   *)
(* send, read and vanish as they like.                                        *)
(*                                                                            *)
(* Times are kept relative to CurrentTime: idle is CurrentTime - lasttime,    *)
(* debt is since - CurrentTime, throttle what is left of last_accept + 2.     *)
EXTENDS Dbuf, Integers, FiniteSets, TLC

CONSTANTS
  Fds,          \* descriptors the clients get, positive
  Buckets,      \* number of hash buckets of the channel table
  Limit,        \* get_sendq of a person and of a server
  SockRoom,     \* what the kernel takes before a write would block
  Kilo,         \* bytes to a K, as lastsq counts them
  Slack,        \* how many K a person's queue grows before it is written out
  ZipMinimum, ZipMaximum, MsgMax,   \* ZIP_MINIMUM, ZIP_MAXIMUM, BUFSIZE
  LongLine,     \* 510: a recvQ of this size with no line end is thrown away
  ReadMark,     \* 4088: a recvQ of this size is not read into
  FloodMark,    \* CLIENT_FLOOD
  MaxDebt,      \* 10: how far since may run ahead of the clock
  Ping,         \* [kind -> seconds]: get_client_ping, CONNECTTIMEOUT if unknown
  UnknownTime,  \* UNKNOWN_TIME
  Scenes        \* what a run may begin with, see TypeOK

ASSUME IOAssumption ==
  /\ Fds \subseteq Nat \ {0} /\ IsFiniteSet(Fds)
  /\ FloodMark < ReadMark /\ LongLine < FloodMark
  /\ ZipMinimum <= ZipMaximum - MsgMax

VARIABLES
  scene,        \* what the peers may do and how often
  open,         \* descriptors with a client in local[]
  conn,         \* [Fds -> the client]
  table,        \* the channel hash table: [1..Buckets -> Seq(channels)]
  auths,        \* AuthPollList, by the client's descriptor
  backlog,      \* connections that wait for accept
  throttle,     \* seconds until the listener is polled again
  nextping,     \* seconds until check_pings is due
  lsage,        \* seconds since everything was read, at most 2
  ticked,       \* whether the last poll returned in a later second
  stage,        \* which call of read_message comes next
  todo,         \* the entries of poll_fdarray this call has still to go through
  ran,          \* what left a recvQ in this step: Seq(<<fd, bytes, were they parsed>>)
  shut          \* the connections closed in this step: Seq(<<fd, reason>>)

vars == <<scene, open, conn, table, auths, backlog, throttle, nextping, lsage,
          ticked, stage, todo, ran, shut>>

loop == <<auths, backlog, throttle, nextping, lsage, ticked, stage, todo>>
quiet == /\ ran' = <<>> /\ shut' = <<>>

Kinds == {"unknown", "person", "server"}

(* make_client.                                                               *)
NewConn(kind, zip) ==
  [kind |-> kind, zip |-> zip, burst |-> zip, sendQ |-> Empty, outbuf |-> <<>>, lastsq |-> 0,
   dead |-> FALSE, sock |-> <<>>, in |-> <<>>, gone |-> FALSE, recvQ |-> Empty, part |-> <<>>,
   nonl |-> FALSE, idle |-> 0, pinged |-> FALSE, asked |-> 0, age |-> 0, debt |-> 0,
   listing |-> FALSE, popped |-> FALSE, progress |-> <<1, 1>>, owed |-> {}]

Blank == NewConn("unknown", FALSE)

IsServer(c) == c.kind = "server"

Later(n) == IF n > 0 THEN n - 1 ELSE 0

-----------------------------------------------------------------------------
(* Output: send.c, s_zip.c, m_list.c.  A compressed block is one unit of the  *)
(* sendQ that holds the bytes it was made of.                                 *)

\* Slip: the sendQ of a dead link is kept.
DeadKeepsQueue(c) == [c EXCEPT !.dead = TRUE, !.recvQ = Empty]

dead_link(c) == [c EXCEPT !.dead = TRUE, !.recvQ = Empty, !.sendQ = Empty]

(* zip_buffer and the dbuf_put behind it: the buffer is compressed once it is *)
(* large enough, later during a connect burst, and always to flush.           *)
zip_buffer(c, flush) ==
  LET ready == \/ flush
               \/ Len(c.outbuf) >= ZipMinimum /\ ~(c.burst /\ Len(c.outbuf) < ZipMaximum - MsgMax)
  IN  IF ~ready \/ c.outbuf = <<>> THEN c
      ELSE [c EXCEPT !.sendQ = dbuf_put(@, <<c.outbuf>>), !.outbuf = <<>>]

(* deliver_it: how much of the first buffer the kernel takes, -1 on an error. *)
deliver_it(c) ==
  LET len == Len(dbuf_map(c.sendQ))
      room == SockRoom - Len(c.sock)
  IN  IF c.gone THEN -1 ELSE IF len < room THEN len ELSE room

RECURSIVE send_queued(_), send_message(_, _), m_list(_), ListFrom(_, _, _), Drain(_, _)

\* Slip: the buffer is deleted though the kernel took only a part of it.
WrittenWhole(c, rlen) ==
  [c EXCEPT !.sock = @ \o SubSeq(dbuf_map(c.sendQ), 1, rlen),
            !.sendQ = dbuf_delete(@, Len(dbuf_map(c.sendQ))), !.lastsq = 0]

(* The kernel has taken rlen bytes of the first buffer.                       *)
Written(c, rlen) ==
  LET left == dbuf_delete(c.sendQ, rlen)
  IN  [c EXCEPT !.sock = @ \o SubSeq(dbuf_map(c.sendQ), 1, rlen), !.sendQ = left,
                !.lastsq = DBufLength(left) \div Kilo]

\* Slip: a list that was broken off is not taken up again.
NotResumed(c) == c

(* When the queue runs empty a LIST that was broken off goes on, and its      *)
(* replies may fill the queue again.                                          *)
Resumed(c) ==
  IF c.popped /\ c.sendQ = Empty THEN m_list([c EXCEPT !.popped = FALSE]) ELSE c

(* The loop of send_queued goes on unless a buffer was taken only in part.    *)
(* more: there is output to be compressed when the queue is empty.            *)
DrainOn(c, more, whole) ==
  IF ~whole THEN c
  ELSE Drain(IF more /\ c.sendQ = Empty THEN zip_buffer(c, TRUE) ELSE c, more /\ c.sendQ # Empty)

Drain(c, more) ==
  LET rlen == deliver_it(c)
  IN  IF c.sendQ = Empty \/ c.dead THEN c
      ELSE IF rlen < 0 THEN dead_link(c)
      ELSE DrainOn(Resumed(Written(c, rlen)), more, rlen = Len(dbuf_map(c.sendQ)))

send_queued(c) ==
  LET held == c.zip /\ c.outbuf # <<>>
  IN  IF c.dead THEN c
      ELSE Drain(IF held /\ c.sendQ = Empty THEN zip_buffer(c, TRUE) ELSE c,
                 held /\ c.sendQ # Empty)

(* The queue is written out each time it has grown by some K.                 *)
WriteOut(c) ==
  IF DBufLength(c.sendQ) \div Kilo > c.lastsq + (IF IsServer(c) THEN 0 ELSE Slack)
  THEN send_queued(c) ELSE c

(* The message goes to the compression buffer or to the queue.                *)
Queued(c, msg) ==
  IF c.zip THEN zip_buffer([c EXCEPT !.outbuf = @ \o msg], FALSE)
  ELSE [c EXCEPT !.sendQ = dbuf_put(@, msg)]

\* Slip: the length of the queue is not looked at during a LIST.
SendUnlimited(c, msg) ==
  IF c.dead THEN c
  ELSE IF DBufLength(c.sendQ) > Limit /\ ~c.listing THEN dead_link(c)
  ELSE WriteOut(Queued(c, msg))

(* A full queue breaks off a LIST, and kills any other client.                *)
send_message(c, msg) ==
  IF c.dead THEN c
  ELSE IF DBufLength(c.sendQ) <= Limit THEN WriteOut(Queued(c, msg))
  ELSE IF c.listing THEN [c EXCEPT !.popped = TRUE]
  ELSE dead_link(c)

(* The end of a LIST: the place -1 is for an RPL_LISTEND that did not fit.    *)
Ended(c) == IF c.popped THEN [c EXCEPT !.progress = <<-1, 1>>] ELSE [c EXCEPT !.listing = FALSE]

ListEnd(c) == Ended(send_message(c, <<"listend">>))

(* Channel j of bucket b was sent, or did not fit.  owed: the channels that   *)
(* must still be listed.                                                      *)
ListOn(c, b, j) ==
  IF c.popped THEN [c EXCEPT !.progress = <<b, j>>]
  ELSE ListFrom([c EXCEPT !.owed = @ \ {table[b][j]}], b, j + 1)

(* The walk through the hash table from place j of bucket b.                  *)
ListFrom(c, b, j) ==
  IF b > Buckets THEN ListEnd(c)
  ELSE IF j > Len(table[b]) THEN ListFrom(c, b + 1, 1)
  ELSE ListOn(send_message(c, <<table[b][j]>>), b, j)

ListStart(c) ==
  [send_message(c, <<"liststart">>) EXCEPT
     !.listing = TRUE, !.popped = FALSE,
     !.owed = UNION {Range(table[b]) : b \in 1..Buckets}]

\* Slip: the list goes on behind the channel that did not fit.
ListSkips(c) ==
  IF c.listing /\ c.progress[1] = -1 THEN ListEnd(c)
  ELSE IF c.listing THEN ListFrom(c, c.progress[1], c.progress[2] + 1)
  ELSE ListFrom(ListStart(c), 1, 1)

m_list(c) ==
  IF c.listing /\ c.progress[1] = -1 THEN ListEnd(c)
  ELSE IF c.listing THEN ListFrom(c, c.progress[1], c.progress[2])
  ELSE ListFrom(ListStart(c), 1, 1)

(* What has been written to the connection and has not been read by its peer. *)
Unzip(c, units) == IF c.zip THEN FlattenSeq(units) ELSE units
Outgoing(c) == Unzip(c, c.sock \o Bytes(c.sendQ)) \o c.outbuf

-----------------------------------------------------------------------------
(* Input: s_bsd.c, packet.c.  The handlers change several connections, so     *)
(* they map a state of all of them, [open, conn, ran, shut], to the next.     *)

Now == [open |-> open, conn |-> conn, ran |-> <<>>, shut |-> <<>>]

Become(s) == /\ open' = s.open /\ conn' = s.conn /\ ran' = s.ran /\ shut' = s.shut

Send(s, f, msg) == [s EXCEPT !.conn[f] = send_message(@, msg)]

SendAll(s, fds, msg) == [s EXCEPT !.conn = [f \in Fds |-> IF f \in fds THEN send_message(@[f], msg) ELSE @[f]]]

(* exit_client and close_connection: everybody else hears of it, unless the   *)
(* client had not registered.                                                 *)
exit_client(s, f, reason) ==
  LET t == IF s.conn[f].kind = "unknown" THEN s ELSE SendAll(s, s.open \ {f}, <<"quit">>)
  IN  [t EXCEPT !.open = @ \ {f}, !.conn[f] = Blank, !.shut = Append(@, <<f, reason>>)]

(* parse, by what the command does; while a LIST is blocked only LIST runs.   *)
Command(s, f, cmd) ==
  LET others == s.open \ {f}
      told == SendAll(s, others, <<"tell", "told">>)
  IN  CASE s.conn[f].listing /\ cmd # "list" -> s
        [] cmd = "say"  -> Send(s, f, <<"reply">>)
        [] cmd = "tell" -> told
        [] cmd = "list" /\ ~IsServer(s.conn[f]) -> [s EXCEPT !.conn[f] = m_list(@)]
        [] cmd = "reg"  -> IF s.conn[f].kind # "unknown" THEN s
                           ELSE Send([s EXCEPT !.conn[f].kind = "person", !.conn[f].age = 0], f, <<"reply">>)
        [] cmd = "pong" -> [s EXCEPT !.conn[f].pinged = FALSE, !.conn[f].asked = 0]
        [] cmd = "kill" /\ others # {} ->
             exit_client(s, CHOOSE o \in others : \A p \in others : o <= p, "killed")
        [] cmd = "quit" -> exit_client(s, f, "quit")
        [] OTHER -> s

(* parse: the line is charged to the client's since and run.                  *)
ParseOn(s, f, line) ==
  Command([s EXCEPT !.ran = Append(@, <<f, line, TRUE>>),
                    !.conn[f].debt = IF IsServer(s.conn[f]) THEN @ ELSE @ + 1], f, Head(line))

(* A connection that is still there but dead is closed.                       *)
CloseDead(s, f) == IF f \in s.open /\ s.conn[f].dead THEN exit_client(s, f, "dead") ELSE s

(* What dopacket and client_dopacket do with a line.                          *)
ParseLine(s, f, line) == CloseDead(ParseOn(s, f, line), f)

RECURSIVE parse_client_queued(_, _), dopacket(_, _, _)

\* Slip: FLAGS_NONL is not set, but the queue is thrown away.
NoLineThrown(s, f, rest) ==
  [s EXCEPT !.conn[f].recvQ = Empty, !.ran = Append(@, <<f, Bytes(rest), FALSE>>)]

(* There is no whole line: wait for it, or drop what is longer than a line.   *)
NoLine(s, f, rest) ==
  IF DBufLength(rest) < LongLine
  THEN [s EXCEPT !.conn[f].recvQ = rest, !.conn[f].nonl = TRUE]
  ELSE [s EXCEPT !.conn[f].recvQ = Empty, !.ran = Append(@, <<f, Bytes(rest), FALSE>>)]

ParseGot(s, f, got) ==
  IF got.line = <<>> THEN NoLine(s, f, got.rest)
  ELSE parse_client_queued(ParseLine([s EXCEPT !.conn[f].recvQ = got.rest], f, got.line), f)

parse_client_queued(s, f) ==
  LET c == s.conn[f]
  IN  IF f \notin s.open \/ c.recvQ = Empty \/ c.nonl \/ c.debt >= MaxDebt THEN s
      ELSE ParseGot(s, f, dbuf_getmsg(c.recvQ))

(* dopacket: a server's bytes are parsed as they come.                        *)
dopacket(s, f, bytes) ==
  LET c == s.conn[f]
  IN  IF f \notin s.open \/ bytes = <<>> THEN s
      ELSE IF Head(bytes) # Eol
      THEN dopacket([s EXCEPT !.conn[f].part = Append(@, Head(bytes))], f, Tail(bytes))
      ELSE IF c.part = <<>> THEN dopacket(s, f, Tail(bytes))
      ELSE dopacket(ParseLine([s EXCEPT !.conn[f].part = <<>>], f, c.part), f, Tail(bytes))

\* Slip: FLAGS_NONL is not cleared.
HeardNonl(c) == [c EXCEPT !.in = <<>>, !.idle = 0, !.pinged = FALSE, !.asked = 0]

(* The first lines of read_packet: what was heard from the peer.              *)
Heard(c) == [c EXCEPT !.in = <<>>, !.idle = 0, !.pinged = FALSE, !.asked = 0, !.nonl = FALSE]

(* read_packet with its callers' treatment of an error or an end of file.     *)
(* Its test of SBSD_MAX_CLIENT is never true: a recvQ over ReadMark is not    *)
(* polled for reading.                                                        *)
read_packet(s, f) ==
  LET c == s.conn[f]
      bytes == Unzip(c, c.in)
      queued == [s EXCEPT !.conn[f] = [Heard(c) EXCEPT !.recvQ = dbuf_put(@, bytes)]]
  IN  IF c.in = <<>>
      THEN IF c.gone THEN exit_client(s, f, "eof") ELSE s
      ELSE IF IsServer(c) THEN dopacket([s EXCEPT !.conn[f] = Heard(c)], f, bytes)
      ELSE IF c.kind = "person" /\ DBufLength(queued.conn[f].recvQ) > FloodMark
      THEN exit_client(queued, f, "flood")
      ELSE parse_client_queued(queued, f)

-----------------------------------------------------------------------------
(* read_message.                                                              *)

highest_fd == IF open = {} THEN 0 ELSE Max(open)

\* Slip: a compression buffer does not ask for POLLOUT.
WantsWriteNoZip(c) == c.sendQ # Empty

WantsWrite(c) == c.sendQ # Empty \/ (c.zip /\ c.outbuf # <<>>)

(* A client whose recvQ is full is parsed while the array is built.           *)
BuildClients(mask) ==
  FoldLeft(LAMBDA s, f : IF f \in open \cap mask /\ DBufLength(s.conn[f].recvQ) >= ReadMark
                         THEN parse_client_queued(s, f) ELSE s,
           Now, SetToSortSeq(Fds, <))

Readable(c) == c.in # <<>> \/ c.gone
Writable(c) == Len(c.sock) < SockRoom \/ c.gone

Entry(s, f) ==
  LET c == s.conn[f]
      read == DBufLength(conn[f].recvQ) < ReadMark
      write == WantsWrite(c)
  IN  [fd |-> f, ask |-> read \/ write, r |-> read /\ Readable(c), w |-> write /\ Writable(c)]

(* Entries of descriptors with nothing in local[].                            *)
Other(event) == [fd |-> 0, ask |-> TRUE, r |-> event, w |-> FALSE]

HasEvent(p) == p.r \/ p.w

Polled(s, mask) ==
  SelectSeq([k \in 1..Cardinality(open \cap mask) |->
              Entry(s, SetToSortSeq(open \cap mask, <)[k])], LAMBDA p : p.ask)

Servers == {f \in open : IsServer(conn[f])}

(* Which descriptors a call of read_message looks at: fdlist_check marks any  *)
(* clients as busy.                                                           *)
Masks(st) ==
  CASE st = "server" -> {Servers}
    [] st = "busy" -> {Servers \union b : b \in SUBSET (open \ Servers)}
    [] OTHER -> {open}

(* The clock moves when poll returns.  Where a scene does not follow the      *)
(* clock the peers answer in time and whatever is due by the clock happens.   *)
Aged(c) ==
  LET top == 2 * Ping[c.kind] + 1
  IN  [c EXCEPT !.idle = IF scene.ages /\ @ < top THEN @ + 1 ELSE @,
                !.asked = IF c.pinged /\ @ < top THEN @ + 1 ELSE @,
                !.age = IF scene.ages /\ c.kind = "unknown" /\ @ <= UnknownTime THEN @ + 1 ELSE @,
                !.debt = Later(@)]

AllAged(s, tick) ==
  [s EXCEPT !.conn = [f \in Fds |-> IF tick /\ f \in s.open THEN Aged(@[f]) ELSE @[f]]]

(* i after the two loops over AuthPollList and ListenerPollList, counted from *)
(* 0: the first loop is left at the last event, and the index that the loop   *)
(* over the clients ended with is still there if both had nothing to look at. *)
LeftOver(pfds, listening) ==
  LET events == {k \in DOMAIN pfds : HasEvent(pfds[k])}
  IN  IF listening THEN Len(auths)
      ELSE IF auths = <<>> THEN highest_fd + 1
      ELSE IF events # {} /\ Max(events) <= Len(auths) THEN Max(events) - 1
      ELSE Len(auths) - 1

FreeFds == Fds \ (open \union Range(auths))

NextStage ==
  CASE stage = "server" -> "busy"
    [] stage = "busy" /\ lsage' = 2 -> "all"
    [] OTHER -> "rest"

(* read_message up to the loop over the clients: the array is built and       *)
(* polled, and the auth and listener descriptors with events are served.  An  *)
(* authentication goes on or ends with the client in local[], the one that    *)
(* accept_connection starts may end at once.                                  *)
PollAt(tick) ==
  /\ todo = <<>> /\ stage # "rest"
  /\ \E mask \in Masks(stage), ready \in SUBSET (1..Len(auths)), now \in BOOLEAN :
     \E done \in SUBSET ready, s \in {AllAged(BuildClients(mask), tick)} :
       LET listening == throttle = 0
           accepted == listening /\ backlog > 0
           pfds == [k \in 1..Len(auths) |-> Other(k \in ready)]
                   \o (IF listening THEN <<Other(accepted)>> ELSE <<>>) \o Polled(s, mask)
           new == IF accepted /\ FreeFds # {} THEN {Min(FreeFds)} ELSE {}
           released == {auths[k] : k \in done} \union (IF now THEN new ELSE {})
       IN  /\ now => new # {}
           /\ todo' = SubSeq(pfds, LeftOver(pfds, listening) + 2, Len(pfds))
           /\ Become([s EXCEPT !.open = @ \union released,
                              !.conn = [f \in Fds |-> IF f \in released THEN NewConn("unknown", FALSE) ELSE @[f]]])
           /\ auths' = SelectSeq(auths, LAMBDA f : f \notin released)
                       \o (IF now \/ new = {} THEN <<>> ELSE <<Min(new)>>)
           /\ backlog' = IF accepted THEN backlog - 1 ELSE backlog
           /\ throttle' = IF accepted THEN 3 ELSE IF tick THEN Later(throttle) ELSE throttle
           /\ nextping' = IF new # {} THEN 0 ELSE IF tick THEN Later(nextping) ELSE nextping
  /\ lsage' = CASE ~scene.ages -> lsage
                [] scene.ages /\ stage = "all" -> 0
                [] scene.ages /\ stage # "all" /\ tick /\ lsage < 2 -> lsage + 1
                [] OTHER -> lsage
  /\ ticked' = tick
  /\ stage' = NextStage
  /\ UNCHANGED <<scene, table>>

Poll == \E tick \in (IF scene.ages THEN BOOLEAN ELSE {TRUE}) : PollAt(tick)

(* One client of the array: write what can be written and leave reading for   *)
(* the next call, or read, or parse what was left in the recvQ.               *)
ServeFd(s, p) ==
  LET f == p.fd
  IN  IF f \notin s.open THEN s
      ELSE IF p.w THEN CloseDead([s EXCEPT !.conn[f] = send_queued(@)], f)
      ELSE IF p.r THEN read_packet(s, f)
      ELSE IF ~IsServer(s.conn[f]) THEN parse_client_queued(s, f)
      ELSE s

Serve ==
  /\ todo # <<>>
  /\ Become(ServeFd(Now, Head(todo)))
  /\ todo' = Tail(todo)
  /\ UNCHANGED <<scene, table, auths, backlog, throttle, nextping, lsage, ticked, stage>>

-----------------------------------------------------------------------------
(* check_pings and flush_connections, the rest of io_loop.                    *)

Silent(c) == Ping[c.kind] < c.idle

Overdue(c) == Silent(c) /\ c.idle >= 2 * Ping[c.kind] /\ c.pinged

\* Slip: FLAGS_DEADSOCKET is not looked at.
DyingAlive(c) ==
  CASE Overdue(c) -> "ping"
    [] ~Overdue(c) /\ c.kind = "unknown" /\ c.age > UnknownTime -> "timeout"
    [] OTHER -> "no"

(* The reason a client dies for; it is told PING before it dies of its age.   *)
Dying(c) ==
  CASE c.dead -> "dead"
    [] ~c.dead /\ Overdue(c) -> "ping"
    [] ~c.dead /\ ~Overdue(c) /\ c.kind = "unknown" /\ c.age > UnknownTime -> "timeout"
    [] OTHER -> "no"

\* Slip: lasttime stays when a PING is sent.
AskLate(c) ==
  IF c.dead \/ ~Silent(c) \/ c.pinged THEN c
  ELSE send_message([c EXCEPT !.pinged = TRUE, !.asked = 0], <<"ping">>)

\* Slip: FLAGS_PINGSENT is not set.
AskUnmarked(c) ==
  IF c.dead \/ ~Silent(c) \/ c.pinged THEN c
  ELSE send_message([c EXCEPT !.idle = Ping[c.kind]], <<"ping">>)

(* A PING makes lasttime what it would be if the time for it had just come.   *)
AskPing(c) ==
  IF c.dead \/ ~Silent(c) \/ c.pinged THEN c
  ELSE send_message([c EXCEPT !.pinged = TRUE, !.asked = 0, !.idle = Ping[c.kind]], <<"ping">>)

(* The next multiple of the ping time after lasttime that is still to come.   *)
NextDue(c) == Ping[c.kind] - (c.idle % Ping[c.kind])

CheckPings(s) ==
  LET asked == [s EXCEPT !.conn = [f \in Fds |-> IF f \in s.open THEN AskPing(@[f]) ELSE @[f]]]
      order == SelectSeq(SetToSortSeq(Fds, <), LAMBDA f : f \in s.open /\ Dying(s.conn[f]) # "no")
  IN  FoldLeft(LAMBDA t, f : exit_client(t, f, Dying(s.conn[f])), asked, order)

Oldest ==
  LET due == {NextDue(AskPing(conn[f])) : f \in {g \in open : Dying(conn[g]) \in {"no", "timeout"}}}
  IN  IF due = {} THEN Ping["person"] ELSE Min(due)

flush_connections(s) ==
  [s EXCEPT !.conn = [f \in Fds |-> IF f \in s.open /\ @[f].sendQ # Empty THEN send_queued(@[f]) ELSE @[f]]]

Rest ==
  /\ todo = <<>> /\ stage = "rest"
  /\ stage' = "server"
  /\ Become(flush_connections(IF nextping = 0 THEN CheckPings(Now) ELSE Now))
  /\ nextping' = IF nextping = 0 /\ scene.ages THEN Oldest ELSE nextping
  /\ UNCHANGED <<scene, table, auths, backlog, throttle, lsage, ticked, todo>>

-----------------------------------------------------------------------------
(* The peers, and what other parts of the server do to a connection.          *)

PeerSends(f, byte) ==
  /\ f \in open /\ ~conn[f].gone /\ ~conn[f].burst
  /\ scene.left > 0
  /\ byte = Eol => conn[f].in # <<>> \/ conn[f].recvQ # Empty \/ conn[f].part # <<>>
  /\ scene' = [scene EXCEPT !.left = @ - 1]
  /\ conn' = [conn EXCEPT ![f].in = Append(@, IF conn[f].zip THEN <<byte>> ELSE byte)]
  /\ quiet
  /\ UNCHANGED <<open, table, loop>>

PeerReads(f) ==
  /\ f \in open /\ conn[f].sock # <<>>
  /\ conn' = [conn EXCEPT ![f].sock = Tail(@)]
  /\ quiet
  /\ UNCHANGED <<scene, open, table, loop>>

PeerGoes(f) ==
  /\ f \in open /\ ~conn[f].gone /\ scene.goes
  /\ conn' = [conn EXCEPT ![f].gone = TRUE]
  /\ quiet
  /\ UNCHANGED <<scene, open, table, loop>>

(* A message for the client, from a user of another server.                   *)
Post(f) ==
  /\ f \in open /\ scene.news > 0 /\ ~conn[f].burst
  /\ scene' = [scene EXCEPT !.news = @ - 1]
  /\ Become(Send(Now, f, <<"post", "card">>))
  /\ UNCHANGED <<table, loop>>

(* The burst of server_estab, in one step: FLAGS2_CBURST is set only in it.   *)
Burst(f) ==
  /\ f \in open /\ conn[f].burst
  /\ \E n \in 0..scene.news :
       LET sent == FoldLeft(LAMBDA c, k : send_message(c, <<"post", "card">>), conn[f], [k \in 1..n |-> k])
       IN  /\ scene' = [scene EXCEPT !.news = @ - n]
           /\ conn' = [conn EXCEPT ![f] = [sent EXCEPT !.burst = FALSE]]
  /\ quiet
  /\ UNCHANGED <<open, table, loop>>

(* get_channel puts a channel in front of its bucket, free_channel takes one  *)
(* out; with it the places of those behind it move.                           *)
NewChannel(b, ch) ==
  /\ scene.chans > 0
  /\ ch \notin UNION {Range(table[k]) : k \in 1..Buckets}
  /\ scene' = [scene EXCEPT !.chans = @ - 1]
  /\ table' = [table EXCEPT ![b] = <<ch>> \o @]
  /\ quiet
  /\ UNCHANGED <<open, conn, loop>>

FreeChannel(b) ==
  /\ scene.chans > 0 /\ table[b] # <<>>
  /\ scene' = [scene EXCEPT !.chans = @ - 1]
  /\ \E k \in DOMAIN table[b] : table' = [table EXCEPT ![b] = RemoveAt(@, k)]
  /\ conn' = [f \in Fds |-> [conn[f] EXCEPT !.owed = @ \ Range(table[b])]]
  /\ quiet
  /\ UNCHANGED <<open, loop>>

-----------------------------------------------------------------------------
Init ==
  /\ scene \in Scenes
  /\ open = DOMAIN scene.kinds
  /\ conn = [f \in Fds |-> IF f \in open THEN NewConn(scene.kinds[f], scene.kinds[f] = "server") ELSE Blank]
  /\ table = scene.table
  /\ auths = <<>> /\ backlog = scene.calls
  /\ throttle = 0 /\ nextping = 0
  /\ lsage = IF scene.ages THEN 0 ELSE 2
  /\ ticked = FALSE
  /\ stage = "server" /\ todo = <<>>
  /\ ran = <<>> /\ shut = <<>>

Loop == Poll \/ Serve \/ Rest

Next ==
  \/ Loop
  \/ \E f \in Fds : \/ \E byte \in scene.bytes : PeerSends(f, byte)
                    \/ PeerReads(f)
                    \/ PeerGoes(f)
                    \/ Post(f)
                    \/ Burst(f)
  \/ \E b \in 1..Buckets : \/ \E ch \in scene.fresh : NewChannel(b, ch)
                           \/ FreeChannel(b)

(* The loop never stops (a step of it changes stage or todo, and one is       *)
(* always possible), the clock moves on, and the peers read what they are     *)
(* sent.                                                                      *)
Spec == /\ Init /\ [][Next]_vars
        /\ []<><<TRUE>>_<<stage, todo>>
        /\ []<><<ticked'>>_<<stage, todo>>
        /\ \A f \in Fds : WF_vars(PeerReads(f))

-----------------------------------------------------------------------------
TypeOK ==
  /\ scene \in [kinds : UNION {[S -> Kinds] : S \in SUBSET Fds}, bytes : SUBSET STRING, left : Nat,
                news : Nat, chans : Nat, fresh : SUBSET STRING, calls : Nat, ages : BOOLEAN, goes : BOOLEAN,
                table : [1..Buckets -> Seq(STRING)]]
  /\ open \subseteq Fds
  /\ \A f \in Fds \ open : conn[f] = Blank
  /\ \A f \in open :
       /\ conn[f].kind \in Kinds
       /\ conn[f].dead => conn[f].sendQ = Empty
       /\ \A b \in Range(conn[f].sendQ) \union Range(conn[f].recvQ) :
            b.data # <<>> /\ Len(b.data) + b.room <= DbufSize
       /\ Len(conn[f].sock) <= SockRoom
       /\ conn[f].debt \in 0..MaxDebt
       /\ conn[f].idle \in 0..(2 * Ping[conn[f].kind] + 1)
  /\ IsInjective(auths) /\ Range(auths) \subseteq Fds \ open
  /\ backlog \in Nat /\ throttle \in 0..3 /\ lsage \in 0..2
  /\ ticked \in BOOLEAN /\ stage \in {"server", "busy", "all", "rest"}
  /\ \A k \in DOMAIN todo : todo[k].fd \in Fds \union {0}

(* What is written to a connection leaves it in that order, whole, through    *)
(* the chain of buffers, partial writes and the compression buffer: a step    *)
(* adds behind what is under way, and only the peer's reading takes from the  *)
(* front, until the connection dies.  (send_message, send_queued, zip_buffer) *)
OutputInOrder ==
  [][\A f \in open \cap open' :
       \/ conn'[f].dead
       \/ IsPrefix(Outgoing(conn[f]), Outgoing(conn'[f]))
       \/ conn'[f] = [conn[f] EXCEPT !.sock = Tail(@)]]_vars

(* The lines that are complete, and the bytes behind the last of them.        *)
Split(bytes) ==
  FoldLeft(LAMBDA acc, b : IF b # Eol THEN [acc EXCEPT !.cur = Append(@, b)]
                           ELSE IF acc.cur = <<>> THEN acc
                           ELSE [lines |-> Append(acc.lines, acc.cur), cur |-> <<>>],
           [lines |-> <<>>, cur |-> <<>>], bytes)

Incoming(c) == c.part \o Bytes(c.recvQ) \o Unzip(c, c.in)

Text(bytes) == SelectSeq(bytes, LAMBDA b : b # Eol)

Left(f, parsed) ==
  LET mine == SelectSeq(ran, LAMBDA r : r[1] = f /\ r[3] = parsed) IN [k \in DOMAIN mine |-> mine[k][2]]

(* Every line a peer completes is parsed once and in order, however the bytes *)
(* were cut by reads, as long as the connection lives; only a piece of        *)
(* LongLine bytes without an end may be dropped.  (read_packet, dopacket,     *)
(* parse_client_queued, dbuf_getmsg, FLAGS_NONL)                              *)
InputInOrder ==
  [][\A f \in open \cap open' : ~conn'[f].dead =>
       LET before == Incoming(conn[f])
           after == Incoming(conn'[f])
           was == Split(before)
           parsed == Left(f, TRUE)'
           dropped == Left(f, FALSE)'
       IN  /\ IsPrefix(parsed, was.lines)
           /\ dropped = <<>> =>
                /\ parsed \o Split(after).lines \in {was.lines, Append(was.lines, was.cur)}
                /\ IsPrefix(Text(before), FlattenSeq(parsed) \o Text(after))
           /\ dropped # <<>> =>
                /\ Len(dropped[1]) >= LongLine /\ Eol \notin Range(dropped[1])
                /\ FlattenSeq(parsed) \o dropped[1] \o Text(after) = Text(before)]_vars

(* A queue is at most one message over its limit, which is looked at before   *)
(* the message is added, and the compression buffer never runs over.          *)
(* (send_message, zip_buffer)                                                 *)
QueuesBounded ==
  \A f \in open : /\ DBufLength(conn[f].sendQ) <= Limit + MsgMax
                  /\ Len(conn[f].outbuf) <= ZipMaximum

(* A LIST that was broken off has a queue to run empty, which wakes it again. *)
(* (send_message, send_queued, m_list)                                        *)
ListResumes ==
  \A f \in open : conn[f].listing /\ ~conn[f].dead => conn[f].popped /\ conn[f].sendQ # Empty

(* A LIST that has ended has shown every channel that was there all the time, *)
(* unless a channel of the same hash bucket went away meanwhile.  (m_list,    *)
(* listprogress)                                                              *)
ListComplete ==
  \A f \in open : ~conn[f].listing /\ ~conn[f].dead => conn[f].owed = {}

(* Nobody is closed for a ping timeout who has not had the ping time to       *)
(* answer, or for an end of file when the peer is there or bytes are left.    *)
(* (check_pings, read_message, read_packet)                                   *)
ClosedForCause ==
  [][\A k \in DOMAIN shut' :
       LET f == shut'[k][1]
           why == shut'[k][2]
       IN  /\ why = "ping" => f \in open /\ conn[f].asked >= Ping[conn[f].kind]
           /\ why = "eof" => f \in open /\ conn[f].gone /\ conn[f].in = <<>>]_vars

(* A link marked dead, which cannot be closed where that is found out, is     *)
(* closed from the main loop.  (dead_link, check_pings)                       *)
DeadCloses == \A f \in Fds : (f \in open /\ conn[f].dead) ~> ~(f \in open /\ conn[f].dead)

(* What is queued for a peer that reads gets out, the compression buffer      *)
(* included.  (read_message, flush_connections, send_queued)                  *)
OutputDrains == \A f \in Fds : (f \in open /\ Outgoing(conn[f]) # <<>>)
                                ~> ~(f \in open /\ Outgoing(conn[f]) # <<>>)

(* A line that has arrived is parsed, or the connection closed, though        *)
(* writing comes before reading, the flood control holds lines back and a     *)
(* round may pass over the clients.  (read_message, parse_client_queued)      *)
InputServed == \A f \in Fds : (f \in open /\ Split(Incoming(conn[f])).lines # <<>>)
                               ~> ~(f \in open /\ Split(Incoming(conn[f])).lines # <<>>)

(* A peer that has fallen silent is closed.  (check_pings)                    *)
SilentClosed == \A f \in Fds : (f \in open /\ scene.ages /\ scene.left = 0) ~> f \notin open

(* The queues keep their limits and their form.  (dbuf_put, send_message)     *)
QueuesSound == TypeOK /\ QueuesBounded

(* A LIST that is broken off at the limit goes on where it stopped and shows  *)
(* what it has to.  (m_list, send_queued)                                     *)
ListRight == ListResumes /\ ListComplete

(* Bytes go out and lines are parsed in the order in which they came, none    *)
(* twice and none left out.  (send_queued, read_packet, parse_client_queued)  *)
InOrder == OutputInOrder /\ InputInOrder

(* Every connection comes to its turn: to write, to read, to be closed.       *)
(* (read_message, check_pings)                                                *)
Serves == DeadCloses /\ OutputDrains /\ InputServed /\ SilentClosed
=============================================================================
