# A verification project for ircd-hybrid 6

ircd-hybrid is an IRC server: one process, one thread, thousands of client
connections and a handful of links to other servers. The servers of a network
form a tree and keep copies of the same clients and channels by sending each
other lines of text. This directory holds TLA+ models of the server's own core
logic, the TLC configurations that check them on small instances, and proofs
of the most important invariants that TLAPS checks for every size.

Paths below are relative to the repository. All modules model the build of
`include/config.h` and `configure`: `TS5`, `TS5_ONLY`, `JUPE_CHANNEL`,
`NO_CREATE_ON_SPLIT`, `CHANMODE_E`/`CHANMODE_I`, `ANTI_NICK_FLOOD`,
`ANTI_SPAMBOT`, `ANTI_DRONE_FLOOD`, `ZIP_LINKS`, `DO_IDENTD`, `FLUD`,
`USE_POLL`, `NO_OPER_FLOOD`, `PROPAGATE_AWAY` and `SHOW_INVISIBLE_LUSERS`
defined; `GLINES`, `IGNORE_BOGUS_TS`, `HIDE_OPS`, `LIMIT_UH`, `IDLE_CHECK`,
`REJECT_HOLD`, `CONNECTFAST`, `NO_PRIORITY`, `SERVERHIDE`, `CUSTOM_ERR` and
`LITTLE_I_LINES` not. Options that servers of one network may differ in
(`HUB`, `USE_KNOCK`, `BURST_AWAY`, the capabilities) belong to the instance.

## How to run it

    tlc -config ChannelTS_all.cfg MCChannelTS       # any of "runs"
    tlapm ChannelTSProofs.tla                       # any of the *Proofs modules

`PROJECT.json` lists every run with its module, configuration and expected
outcome, the mutants that show each property can fail, the source lines behind
every definition, the hazards, the findings and the theorems.

## Inventory of the system

| Part | Source | State | Operations | Talks to |
|---|---|---|---|---|
| Channel timestamp protocol | `channel.c`, bursts in `s_serv.c`, exits in `client.c` | per server: members, ops, voices, deopped marks, modes, channel TS; lines in flight | SJOIN, JOIN, PART, KICK, MODE, QUIT, KILL, SQUIT, link, split | every other server, through FIFO links |
| Channel lists on one server | `channel.c`, `client.c`, `s_conf.c` (Q lines) | two links and two counters per membership, invitations, three mask lists, `Count.chan` | JOIN, PART, KICK, INVITE, MODE, SJOIN, exit, rehash | client exit, hash table |
| Nick registration and collisions | `s_user.c`, `m_kill.c`, `parse.c` | per server: nick, TS and location of each client | NICK, USER, KILL with its chase, QUIT, SQUIT | nick history, every other server |
| User modes and operators | `s_user.c`, `m_oper.c`, `m_away.c`, `client.c`, `send.c` | per server: modes and away mark of every user, `Count`, the list of local operators | OPER, MODE, AWAY, KILL, QUIT, WALLOPS, OPERWALL, LOCOPS, LUSERS, burst, split | every other server, conf |
| Message routing | `m_message.c`, `send.c`, `parse.c`, `s_serv.c` | serial numbers per descriptor, what each server knows of members | PRIVMSG, NOTICE, KNOCK, numerics, `hunt_server` | channels, flood control |
| Nick history | `m_whowas.c` | ring of entries on two kinds of chains | `add_history`, `off_history`, `get_history` | KILL, client exit |
| Connection authentication | `s_auth.c`, `adns.c`, `listener.c` | requests on two lists, flags, ident sockets, resolver queries, listener reference counts | accept, DNS callback, ident connect/read/error, timeout, exit, rehash | poll loop, resolver, conf |
| I/O loop | `s_bsd.c`, `ircd.c` | poll array, `local[]`, listener throttle | `read_message`, `accept_connection`, `close_connection` | everything |
| Send queues | `send.c`, `dbuf.c`, `s_zip.c` | one buffer per connection, dead marks | `send_message`, `send_queued`, `dead_link` | poll loop |
| Flood control | `packet.c`, `flud.c`, `s_bsd.c` | `since`, receive queue, who floods whom | `parse_client_queued`, `check_for_flud` | client exit |
| Ping timeouts | `client.c` (`check_pings`), `m_ping.c`, `m_pong.c` | `lasttime`, `FLAGS_PINGSENT` | periodic check, any line read | client exit |
| Configuration | `s_conf.c`, `class.c`, `m_rehash.c` | conf items and classes with reference counts, lookups under way, per-address counters | attach, detach, rehash | clients, resolver |
| Client lists and exit | `client.c`, `list.c`, `hash.c` | client blocks, lists, counters | make, register, `exit_client`, free | everything |
| Server handshake and burst | `m_pass.c`, `m_capab.c`, `m_server.c`, `m_svinfo.c`, `s_serv.c` | link state, pending autoconnects | PASS, CAPAB, SERVER, SVINFO, `server_estab`, `try_connections` | conf, channels, nicks |
| K lines, D lines | `m_kline.c`, `m_unkline.c`, `mtrie_conf.c`, `dline_conf.c` | a trie of host masks, trees of networks, temporary and pending lines, two files | KLINE, DLINE, UNKLINE, UNDLINE, rehash, match | conf, ping check, registration |
| Split mode | `channel.c`, `m_set.c`, `client.c` | `server_was_split` and its timer | server exit, SET, PONG | JOIN |
| Block allocator | `blalloc.c` | blocks with bit maps | alloc, free, collect | every list |
| Mask matching | `match.c` | none | `match`, `collapse` | bans, K lines |

What is hard here, and what makes the parts correct:

* **Several copies of one fact on different servers.** Lines cross on a link,
  links break and come back, and the two ends notice at different times.
  Correct: what servers hold agrees once the lines in flight are handled
  (`NamesAgree`, `ChannelsAgree`, `LiveNicksUnique`), nothing is kept from
  behind a broken link (`NoGhosts`), and the traffic dies out (`Settles`).
* **Several copies of one fact in one server.** A membership is four fields in
  two structures, an invitation two links, a history entry is on two chains.
  No lock protects them, and none is needed; what can go wrong is a path that
  forgets one copy. Correct: the copies agree after every handler
  (`MembersAgree`, `CountsAgree`, `InvitesAgree`, `HashChains`).
* **Callbacks with pointers.** Resolver queries, ident sockets and listeners
  outlive or are outlived by the connection they belong to. Correct:
  `QueriesMatch`, `SocketsMatch`, `ListenersMatch`, and every connection is
  let in in the end (`Admitted`).
* **Limits.** +l, MAXBANS, MAXCHANNELSPERUSER, the ring of nicks, classes,
  connections per address, the send queue: checked against counters, at
  boundaries. Correct: the counters count what is there (`CountsRight`,
  `IpCounted`), and what is cut off at a limit is resumed (`ListComplete`).
* **Memory that others free.** A rehash throws configuration away under the
  connections that use it. Correct: nothing freed is reached, nothing is left
  over (`ConfAlive`, `NoLeak`).
* **One decision taken in several places.** A ban is looked for by
  registration, by the ping check and by the commands, in trees whose shape
  depends on the order of the files. Correct: the trees say what the files say
  (`HostBansRight`, `DlinesRight`) and nobody banned stays (`NoEscape`).

`PROJECT.json` has the hazards at their lines.

The configurations name conjunctions where several invariants are about one
thing; each part has its own definition, comment and mutant:

| Run | Property | Parts |
|---|---|---|
| `ts` | `ServersSound` | `TypeOK`, `ChanStructure`, `NoGhosts` |
| | `ServersAgree` | `NamesAgree`, `ChannelsAgree` |
| | `TSNeverRises`, `Settles` | |
| `nick` | `NicksSound` | `TypeOK`, `NicksUnique`, `HistorySound`, `NoGhosts` |
| | `CollisionsResolved` | `KnownOnce`, `NamesAgree`, `OneSurvives`, `LiveNicksUnique` |
| | `Settles` | |
| `auth` | `RequestsSound` | `TypeOK`, `ListsMatchFlags`, `NoLostClient`, `QueriesMatch`, `SocketsMatch`, `ListenersMatch` |
| | `OnlyWhenDone`, `Admitted` | |
| `whowas` | `ChainsSound` | `TypeOK`, `HashChains`, `ClientChains` |
| | `LookupRight`, `Implements` | |
| `chan_all` | `ListsAgree` | `TypeOK`, `MembersAgree`, `CountsAgree`, `CleanExit` |
| | `InvitesSound` | `InvitesAgree`, `InvitesPending` |
| | `ListsBounded` | `InvitesBounded`, `MasksCounted` |
| | `LocalJoinWithinLimit` | |
| `conf` | `MemorySound` | `TypeOK`, `ConfAlive`, `LookupsRight`, `HeldLines`, `KeptTillRehash` |
| | `CountsExact` | `NoLeak`, `CountsRight`, `IpCounted` |
| | `WithinLimits` | |
| `lines` | `StoresRight` | `TypeOK`, `HostBansRight`, `DlinesRight` |
| | `NoEscape`, `MemoryHasSource` | |
| `io` | `QueuesSound` | `TypeOK`, `QueuesBounded` |
| | `ListRight` | `ListResumes`, `ListComplete` |
| | `InOrder` | `OutputInOrder`, `InputInOrder` |
| | `Serves` | `DeadCloses`, `OutputDrains`, `InputServed`, `SilentClosed` |
| | `ClosedForCause` | |
| `links` | `ListsSound` | `TypeOK`, `TreeOK`, `CountsRight` |
| | `ViewsAgree` | `HopsRight` |
| | `Settles` | |
| `messages` | `Heard` | `ReachesAll`, `OneOutcome`, `NeverGhosted`, `ViewRight` |
| | `ListsSound` | `TypeOK`, `FludListsRight` |
| | `AtMostOnce`, `FludBlocksFloods`, `Settles` | |
| `users` | `ListsSound` | `TypeOK`, `CountsRight`, `OperListRight` |
| | `ViewsAgree`, `OperatorsHear`, `Settles` | |

## Modules

### ChannelTS: one channel on a tree of servers

`chan[s]` is `struct Channel` at server `s` (members with their flags, modes,
TS, the jupe mark), `known[s]` its client hash table, `linked[s]` the
neighbours with an established link, `wire[s][t]` the lines on the link that
`t` has not parsed. Each server handles one line at a time, as `parse()` does;
the client commands at its own server are further actions. A split is two
actions, one per end: the end that notices first exits the clients behind the
link and tells its other neighbours, while the other end goes on until it
notices too. `Receive` runs the handler of the line at the head of a stream:
m_sjoin with its three-way comparison of timestamps, set_channel_mode with the
deopped marks, m_kick, m_quit, m_kill, m_squit, and parse()'s rules for lines
from unknown sources or the wrong direction.

Abstractions: one '#' channel; parameterless modes are a set, +k and +l values
of a small ordered set (the code compares them); ban lists are not part of an
SJOIN in this version. A behaviour follows one of the `Scripts`: what happens at
which server, which clients act, the creation times, a bound on client commands
and network events (`budget`), and what linked servers agree on in the end.

The run `ts` has a line of three servers with two, one and one clients, and four
scripts:

| Script | What happens | Budget | Shows |
|---|---|---|---|
| `Merge` | JOIN and LINK everywhere, three creation times | 5 | when the wires are empty, linked servers have the same TS, modes, members, ops and voices, in whichever order bursts and joins crossed |
| `OneSide` | two servers merge, one side gives and takes o, v, k and l | 5 | the deopped marks do what they are for: both ends refuse the same changes and agree on the whole channel |
| `Relay` | clients of the outer servers join and part, links break and come back, noticed by either end first | 6 | names agree through a relay |
| `All` | every command on two servers, two creation times | 4 | nothing in particular agrees |

In all of them types hold, channels stay well formed, there are no ghosts, no
timestamp ever rises and the traffic dies out. A budget of five lets three
clients join and two links come up; one of six one more thing happen while
lines are in flight. `All` has a budget of four because it has every command;
`ServersSound` and `TSNeverRises` are also proved for every budget. Agreement is
asked only where the code can keep it: `ChannelsAgree` while no channel is
emptied (see Known divergences) and while one side changes modes, `NamesAgree`
without KICK and KILL, which name a nick and may cross its JOIN.

### NickTS: nicks on a tree of servers

Each server's table maps clients to nick, TS and `user@host`; lines are NICK
introductions and changes, KILL, QUIT and SQUIT. The actions are m_nick in its
local and remote forms with the five branches of nick_from_server's collision
rules (same or different `user@host`, older, equal, younger), m_user,
m_kill with get_history's chase and its rewriting of the path, the exits, and
link and split as in ChannelTS. The flood limit of nick changes is
`MaxChanges`. A history entry is assumed no older than KILLCHASETIMELIMIT; the
limit itself is the subject of Whowas.

The run `nick` has two servers and three clients, of which two share a
`user@host`, and two scripts. In `Meet` clients register and the servers link,
with clocks that never agree: both ends resolve every collision the same way,
one rival survives, and no nick keeps two connected clients. In `Everything`
the clocks are equal, every command happens and links break: one client per
nick per server, no dangling history entry, no ghosts, and the KILLs die out.
In `Meet` the budget never binds: all three clients register and both ends
link. With equal clocks both rivals die, which is the rule; with nick changes a
loser may escape the collision, so agreement is asked without them.
`NicksSound` is also proved, for every tree of servers.

### Auth: from accept to client

One action per handler: `add_connection`/`start_auth`, `auth_dns_callback`,
`auth_connect_callback`, `read_auth_reply`, `auth_error`,
`timeout_auth_queries`, `exit_client` with `close_connection`, and the rehash
that closes and reopens listeners. State: the request and its flags, the two
lists it can be on, ident sockets and resolver queries (counted, so a double
close or a double submission shows as a wrong number), and each listener's
`active` flag and reference count. Client blocks are reused, as the block
allocator does, so a late callback would reach the next client of the block.

The run `auth` has three connections and two ports: enough to have one
connection on each list and one block being reused. It checks
`RequestsSound`, `OnlyWhenDone` and that every connection is let in.

### History and Whowas

`History` is what `m_whowas.c` promises: the last `Length` nicks given up,
newest first, each with its client while that client exists. `Whowas` is the
ring with its doubly linked hash chains and per-client chains, entry by entry
and pointer by pointer. The run `whowas` checks the chains, that get_history,
which walks one hash chain, finds what the whole history says at every age
around the limit, and that the ring implements the history (`Implements`, with
a refinement mapping from the ring to the sequence). A ring of three wraps
several times while the clock ticks; two of three nicks share a hash
value, so chains mix nicks. All three properties are also proved for every
length of the ring.

### Channel: the lists of one server

ChannelTS has one set of members per server; `Channel` keeps the copies apart:
`chan[c].members` and `chan[c].users` on the channel's side, `user[u].channel`
and `user[u].joined` on the client's; `chan[c].invites` and the ordered
`user[u].invited`; `ban`, `exempt`, `invex` and `numbed`; `Count.chan`.
The actions are m_join, m_sjoin, m_part, JOIN 0, m_kick, m_invite, the modes
o, i, l, j, b, e and I of set_channel_mode, OPER and deoper (they change
the channel limit), exit_one_client and the rehash of Q lines. The order of
`user->invited` is kept as a set of pairs because add_invite drops the oldest.

Abstractions: an SJOIN says who wins, not the timestamps; a key is known or
not; a client is refused without a trace, so refusals are no steps.

The run `chan_all` has a local and a remote client, two channels, one mask, all
limits at one and every command but MODE e: memberships, invitations, masks and
their counters agree; no half invitation, none to a member or an empty channel,
none too many; clean exits; no local client enters past +l. With limits of one
every second JOIN or INVITE meets a full list; a remote client passes the
limits, so counters also go past them. Two channels are enough for a list of
which one element is dropped and another kept. The list of MODE e is handled
like the two others and only left out of `chan_all` to keep it small; all four
properties are proved for any number of clients, channels and masks.

### Conf: the configuration under a running server

`items` and `classes` are the conf items and classes in memory, as blocks: a
number outside the domain is a freed block. `confs[c]` is the list of items a
connection is attached to, `queries` the lookups in the resolver, `ips` the
per-address table, and the file is one of `Files`, which a rehash reads again.
One action per way a connection takes and lets go of configuration: accept,
lookup and answer, registration with attach_Iline and its refusals, OPER and
MODE -o, connect_server, check_server with its lookup, server_estab, exit, and
the rehash with its clear-out of items and classes, which waits for nothing: a
lookup may be under way, a link half made, an operator about to leave.

The run `conf` has two connections, one server name, two rehashes and two
files. `Full` gives the users' class one place and two clients of an address,
and has an F line for those whom the limits do not hold; its server is at one
host, under a user name. `Moved` gives the class two places and one client of
an address, so that each limit is met by a second client; the servers' class is
gone, so that its lines fall to class 0, and the server is at another host,
whose name is looked up. Starting with either and reading both in any order,
the run checks that no freed block is reached (`ConfAlive`), that an item waits
for an answer exactly while one lookup for it is under way (`LookupsRight`),
that no block is left over, that the counters of items, classes and addresses
are exact, that every connection holds the lines its state needs, and that
nobody enters past a limit.

The code fails three of the rules one would write down here, all by a rehash:
`LookupsCancelled` (a lookup outlives the item that was freed), `LinesKept`
(check_server frees the lines it is about to attach) and `ClassesKept` (an H or L
line keeps a class that was freed). They are stated in the module and asked until
the first rehash (`KeptTillRehash`); named alone in `Conf_all.cfg` the first two
show the failure, the third does with `Files <- Hubless`. The other properties are
asked at all times and go on past these points: an answer for a freed item changes
nothing, a freed block is not given out again while something points to it, and a
link that holds freed lines (`st = "freed"`) is left where it is.

Bounds: `Callers` and `UserNames` are one host and one user name, those of the
users and of the first file's server, so that the addresses of users meet;
`Blocks` is large enough that it is never reached.

Abstractions: host masks are exact names; a host stands for its address; the
text of the file is a sequence of parsed lines, one of them malformed.

### Mtrie, IpTree and Lines: bans

`Mtrie` is the trie of host masks of `mtrie_conf.c` with its list of masks that
cannot be sorted and its remembered I line, `IpTree` the tree of networks of
`dline_conf.c` with insertion, search, deletion of nodes (a coin decides which
neighbour takes the place) and the "oracle"; both are functions on data.
`Lines` holds the stores, the two files and their locks, pending and temporary
lines, and which clients are connected and registered. Its actions are the
commands KLINE (permanent, temporary, by nick), DLINE, UNKLINE, UNDLINE, the
forms of REHASH, a file being locked, the clock, connection, registration and
check_pings.

The run `lines` starts from every order of up to three K lines behind one of
four sets of I lines, every order of up to four D lines and exceptions, and a
world of commands with two clients. It compares what the stores answer for
every client and every address with the reference definition over the set of
lines in force (`HostBansRight`, `DlinesRight`), and checks that nobody banned
stays (`NoEscape`) and that memory has nothing the files do not have
(`MemoryHasSource`). The orders of K lines mix masks of the trie, masks that
cannot be sorted and addresses; the orders of D lines put broad ones before and
after those they contain, with exceptions inside, around and beside them, so that
the removal of covered nodes, the taking over of their exceptions and the
leftovers are all judged. Addresses have three bits, so that a network, one inside
it and one beside it exist.

Three left-hand sides say which lines the code can be asked about:
`HostBansOnly` and `OneStore(c)` for K lines, `DlinesPlaced` for D lines. What
they leave out is listed under Known divergences. `OneStore` is asked client by
client: a mixture of stores is left out only for a client that has an I line in
the trie. Without it the property is `StoresTried`, which the code fails (named in
`Lines_all.cfg` it shows how). Up to four D lines is one less than what it takes
to lose a node: with `Worlds <- Neighbours`, which has five, `DlinesRight` fails.

Abstractions: one tree for one first octet; user masks are exact or `*`; a
write to a file does not fail.

### Dbuf and IO: buffers and the poll loop

`Dbuf` is `dbuf.c`, buffer by buffer. `IO` is the loop over it: `conn[f]` is a
connection with its receive and send queues, flags, times relative to the clock
and compression buffer; `todo` the descriptors of the round still to be
handled. A step is one descriptor of read_message, as in the code: deferred
death, write, read, cutting into lines, parsing under the flood control; a
round may add an accept, and check_pings and the clock come between rounds.
Peers send, read and vanish at any time. LIST walks the channel table and is
broken off and resumed by the send queue.

The run `io` has six scenes with at most two connections: a LIST that does not
fit, a compressed link during and after its burst, two clients that talk to and
kill each other, lines that come in pieces, too long or too many, before and
after registration, and new connections while one falls silent. Sizes are
scaled so that every limit is met within a few bytes (a buffer of two bytes, a
send queue of one unit, a line of two). It checks queue bounds, that LIST is
resumable and complete, that bytes leave and lines are parsed in order, that a
connection is closed only for a cause of its own, and that dead ones are
closed, output drains, input is served and the silent are closed.

Abstractions: a compressed block is one unit; what is parsed is a token that
says which handler runs; outgoing connections, LIFESUX reads, failure of
allocation and unzip overflow are left out; busy descriptors are chosen freely.

### Links: the tree of servers

`known[s]` is the list of servers `s` knows, each with the link it is behind,
its uplink and distance, in order of introduction; `end[c][s]` is the state of
`s`'s end of connection `c`. The actions: dial and accept, the handshake of
PASS, CAPAB, SERVER and SVINFO with its refusals, server_estab with the burst
of servers, SERVER from behind a link with the loop check and H and L lines,
SQUIT, AUTOCONN 0, a cut, and its detection. The run `links` has three servers
and seventeen scenes (rings, mutual dials, links lost and dialled again, SQUITs
with and without QS, and every refusal of the configuration) and at most four
connections. It checks that every list is a tree (`TreeOK`), the counters, that
distances fit at every moment (`HopsRight`) and that once all is read every
server knows exactly the servers it is connected to, at their true distance
(`ViewsAgree`). `links_ghost` is a finding, below. `SceneAssumption` says what
the lists at the start are: trees, with every standing link listed at both of
its ends (`Standing`), and nobody dials itself.

Abstractions: server names are not masked; users are in the other modules;
ERROR and PING are left out; the lines before SERVER are read together with it.

### Flud and Messages: routing

`Flud` is the two lists of `flud.c`. `Messages` follows labelled messages over
a line of three servers: PRIVMSG and NOTICE to nicks, `user@server`, channels,
their operators and voiced members, masks and lists of these; KNOCK; queries
sent on by hunt_server; the numerics that answer; and QUIT, NICK, JOIN, PART
and MODE crossing them. Each server's own view decides at each hop. The run
`messages` has seventeen scenes. It checks that nobody gets a message twice
(`AtMostOnce`), everybody steady who may gets it (`ReachesAll`), every message
to a nick and every query ends in one delivery or one answer (`OneOutcome`), no
source is killed as a ghost that is none (`NeverGhosted`), what a client was
told of a channel is what its server has (`ViewRight`), the two flood lists are
each other's mirror (`FludListsRight`), blocking starts only after more than
FLUDNUM messages within FLUDTIME (`FludBlocksFloods`), and all comes to an end.
`heard` is a history variable: the CTCPs each target was sent, when and by whom.
The flood lists and the blocks are proved right for any tree (`MessagesProofs`).

Abstractions: nicks do not collide and channels do not merge; away replies and
idle times are left out; hunt_server gets exact names; KNOCK looks at +i and +p.

### Users: modes, operators and counters

`here[s]` is who is in `s`'s client list, `umodes[s]` their modes there,
`count[s]` the counters of `Count` and `opers[s]` the list of local operators.
The actions: registration, MODE, OPER with a global or a local O line and the
modes it sets, AWAY, QUIT, KILL, SQUIT, WALLOPS, OPERWALL, LOCOPS, LUSERS, the
burst and the removals. The run `users` has ten scenes on a line of three
servers with five clients. It checks the counters after every step
(`CountsRight`), the operator list (`OperListRight`), that linked servers agree
on users and on the modes that are sent (`ViewsAgree`), that a word to
operators reaches each of them once (`OperatorsHear`), and that all comes to
an end. A user introduced where it is known already collides with itself, by
m_nick's rules for equal timestamps, and is killed everywhere (`Collided`); a
server introduced twice has its link closed (`m_server`). Neither happens in the
scenes of the run; `ListsSound` is proved for any tree and any events, where a
handler must cope with any line that can be on a stream.

Two paths of the code miscount: a ghost lowers the total without having raised
it (`s_user.c:791`), and an O line with `i` makes an operator invisible without
counting it (`m_oper.c:207`). The variable `slips` records them, `CountsRight`
takes them off, and LUSERS, which corrects the counters as show_lusers does,
resets them.

## Fairness

Safety needs none. `Settles` (ChannelTS, NickTS, Links, Messages, Users)
assumes that the servers do not stop for good while there is a line to parse:
`read_message` polls every connection, and the models let a link break at any
time instead of staying silent for ever. In ChannelTS, Links, Messages and
Users this weak fairness is written with its enabling condition spelled out
(`CanReceive`, `Quiet`), which TLC evaluates faster than ENABLED. `Admitted`
(Auth) assumes only that time passes (`Expire`) and that
`timeout_auth_queries` is called again (`io_loop` calls it with every ping
check); nothing is assumed of name servers, ident servers or clients. IO
assumes that the loop goes on, that the clock ticks, and, for `OutputDrains`,
that a peer that is still there reads.

Deadlock checking is off where a behaviour ends when its script, scene or
budget is used up and the wires are empty (ChannelTS, NickTS, Links, Lines,
Messages, Users); it is on everywhere else.

## Proofs

Eight modules hold theorems; each finds an inductive strengthening and shows
`Init => IndInv`, `IndInv /\ [Next]_vars => IndInv'` with one lemma per handler,
and `IndInv => property`. The strengthenings:

* **ChannelTSProofs**, for every tree of servers (`TopologyAssumption`,
  `TreeAssumption`, `DataAssumption`), any clients and any budget:
  `ServersSound` and `TSNeverRises`. NoGhosts is not
  inductive alone: a line in flight could introduce a client from the wrong
  side. `WireOK` adds that what a stream carries lies behind its sender; the
  tree assumption turns that into: handled or relayed, it stays so.
* **NickTSProofs**, for every tree of servers (`NickAssumption`,
  `TreeAssumption`), any clients and commands: `NicksSound`. `TableOK` says of
  one server's table that it has no nick twice, that its own clients are in it
  once, that the history points into it and that everybody in it is placed
  behind a link. It is inductive with the same addition about streams as above:
  without it a NICK line could introduce one of the server's own clients under
  a second nick. A handler exits some structures and then lets at most one take
  a nick, so four lemmas (`TableExit`, `TableAdd`, `TableReplace`, `TableNote`)
  carry all collision rules.
* **AuthProofs**, for any connections and ports (`PortAssumption`):
  `RequestsSound` and `OnlyWhenDone`. What concerns one connection is inductive
  together (`ConnOK`); the reference counts need that a free block refers to
  no listener.
* **WhowasProofs**, for any length of the ring and any hash function
  (`LengthAssumption`, `NoneAssumption`, `TimeAssumption`): `ChainsSound`,
  `LookupRight`, and `Implements`, the refinement of History. The chains are
  described by the age of the slots; reuse of the oldest slot keeps every order
  among the others. The invariant also needs that the slots fill up in order
  (`Filled`) and that an unused slot is blank (`EntryOK`), or the first round
  would take garbage off a chain. off_history and get_history loop; the loops
  are recursive functions of the number of rounds, and what holds after each
  round follows from the least round at which it would not.
* **ChannelProofs**, for any clients, channels, masks and limits
  (`ClientAssumption`, `ChannelAssumption`, `MaskAssumption`, which only say
  that they are finite and well typed): `ListsAgree`, `InvitesSound`,
  `ListsBounded` and `LocalJoinWithinLimit`. The lists are
  not inductive without the counters, because sub1_from_channel looks at
  `users` to decide that nobody is left and drops the invitations then; the
  counters are not inductive without the lists. `Shape` (the order of
  invitations relates nothing but invitations) is needed for `CleanExit`. That
  add_invite finds an oldest invitation to drop, which bounds the list, needs
  that the invitations are a total order (`Lists`), and that can_join keeps the
  limit needs that the counter it reads is exact.
* **UsersProofs**, for any tree of servers, any users and any events
  (`UserAssumption`, `SceneAssumption`): `ListsSound`. The counters of one
  server depend on what other servers send: a MODE line that both set and
  cleared `o` would move the operator counter without moving the list. `Line`
  says that streams tell of the modes i, o and w only and never of one twice;
  that no server knows itself makes a split take remote users only. A handler is
  a composition of operators on the world, and each operator keeps the invariant
  (`WorldOK`): `OneUser` for a change of one user, `ForgetOK` for a whole side of
  the tree, `FlattenOK` for what a burst puts on a wire.
* **MessagesProofs**, for any tree of servers, any users, channels, limits and
  scenes (`UserAssumption`, `SceneAssumption`, `FludAssumption`): `ListsSound`
  and `FludBlocksFloods`. `Good` holds between any two calls of a step, `Inv` is
  what is left of it between steps. The lists need what a link can carry
  (`LineOK`): a message on a link has one target, so that a source that is
  killed as a ghost half way through a list is never looked at again. That only
  floods block needs to know where the running count comes from: each entry is
  `Backed` by as many CTCPs of its fluder since its first as it counts, entries
  of a list have different fluders, and so the count is at most what came in the
  last FLUDTIME seconds (`TotalOK`); that no clean-up takes an entry of the
  other side with it is `Crossed`, kept by every operation of flud.c.
* **LinksProofs**, for any number of servers and connections and any
  configuration (`SceneAssumption`): `ListsSound`, the tree of every server's
  list and its two counters. `Good` holds between any two calls of a step; a call
  of one server touches its own list and ends only and says more on its links
  (`At`, `Talk`). The tree is not inductive alone, because server_estab lists the
  name it is told: an end that is not linked yet must read its peer's own SERVER
  line, or the end of the connection, before any name the peer bursts (`Opening`),
  and that line must be on its way once the peer has said Hello (`Greeted`). While
  an end reads, or has moved on and not yet sent its Hello, it is exempt: that is
  the second argument of `Good`. A connection must have two ends or none
  (`EndsOK`), or Peer names nobody. The removal of a server rests on `Dependents`,
  a walk along the list written as a recursive function: it finds all that hang
  on the lost server and nothing of another link (`Behind`), so what stays is
  a tree again and the counter goes down by as many (`PruneFar`, `PruneLink`).

Only model-checked, and why:

* liveness under fairness, which is beyond this prover (`Settles`, `Admitted`,
  `Serves`);
* agreement between servers (`ServersAgree`, `CollisionsResolved`, `ViewsAgree`,
  `OperatorsHear`, `Heard`, `AtMostOnce`), whose invariants would have to
  describe every line in flight together with what it will meet. `KnownOnce` of
  NickTS belongs here: that a client is not introduced twice over several hops
  depends on the order of QUIT and NICK along the whole path;
* Conf, Lines and IO: their handlers are folds over lists or use RECURSIVE
  operators (the trie, the tree of networks, the buffers), which would need
  induction over data;
* the distances of Links (`HopsRight`): the hop count of a server comes with the
  SERVER line and would have to be compared with what the receiver lists for the
  introducer when it reads it, past every SQUIT and SERVER still on the way.

## Findings

* `links_ghost` (expected outcome "violation"): a SQUIT on its way crosses the
  loss and the re-opening of the link it is about. The server with the link
  drops the new one and, the SQUIT having come from a neighbour with QS, does
  not tell that neighbour, which was introduced to the server a second time and
  keeps it as a ghost. A comment in `src/m_squit.c` says that the cleanup goes
  "also to the link from which the orinal SQUIT came". Without QS `ViewsAgree`
  holds in the same scene, which is part of `links`.

## Known divergences

What the models reach in other instances, and why some properties are asked of
fewer behaviours:

* Channels: a channel emptied while the other side's burst is in flight comes
  back with the younger timestamp on one side (`channel.c:2114`, against
  `doc/README.TSora:83-86`); crossing +o and -o, or a KICK that crosses the
  victim's PART and JOIN, leave two servers with different ops or members; an
  SJOIN whose only client is gone creates a channel nobody is on
  (`channel.c:3703`); an SJOIN that takes +i away leaves the invitations
  (`channel.c:3870`); invite exceptions are never freed with their channel
  (`channel.c:2172`; `orphans` in Channel collects them); MODE -j frees an
  empty channel in the middle of a mode line (`channel.c:1658`).
* Nicks: a nick change refused for flooding resets the TS all the same
  (`s_user.c:1204`); on a line of three servers a KILL by nick can hit the
  rightful owner of the nick; a KILL can hit a newcomer that took the victim's
  old nick.
* Users: a KILL, an operator's or remove_unknown's, that crosses the
  re-introduction of a client after a relink leaves the client on the sender's
  side; without BURST_AWAY a burst loses AWAY; OPERWALL of a local operator
  stays on its server while WALLOPS goes everywhere.
* Messages: `+#channel` goes to other servers as `@#channel`, so voiced members
  there do not get it; an entry that began before FLUDTIME counts as one
  whatever it holds; a refused KNOCK uses up its delay.
* Conf: a rehash frees an item whose host is looked up; `free_conf` cancels
  `aconf->dns_query`, which nobody sets, so that the answer is written to freed
  memory (`s_conf.c:226`, `LookupsCancelled`). A server is dialled and a rehash
  moves it to another host: check_server, whose comment lets go only of what
  attach_confs attached, lets go of all lines, and the old ones are freed and
  attached again (`s_serv.c:430`, `LinesKept`). An H or L line that names a class
  which the new file does not have keeps a pointer to it, and check_class frees the
  class (`s_conf.c:2216`, `ClassesKept`), although the comment at `s_conf.c:2288`
  gives each line "a pointer to the correct class record".
* Lines, K lines (excluded by `HostBansOnly` and `OneStore`): a K line for
  `user@host` is missed behind an I line `*@` of the same host; `K:*@joe.com` also
  bans `y.joe.com` where a piece of the name hashes to the chain of the wild
  cards; of a K and an I line with one mask the K line must come second; of two K
  lines on addresses, the broader is put on the node of the narrower when that
  node is in place and holds the broader's first address; a K line beside the trie
  is missed for a client with an I line in the trie when the trie holds K lines
  too: the search for a K line returns the I line (`mtrie_conf.c:941`, `:958`), and
  the unsortable masks and the addresses are not tried, against the comments at
  `mtrie_conf.c:860` and `:865`.
* Lines, D lines (excluded by `DlinesPlaced`): an exception that covers more than
  the D line it is for is not placed; an exception that holds the first address
  of a later D line which it does not cover drops that line; a D line given by
  nick or with an unmasked address does not match until the next rehash.
  delete_ip_subtree, which is to delete the subsets of a mask, also loses nodes
  outside it where the deleted one has two children (`dline_conf.c:186-208`).
* Lines, files: a DLINE writes pending K lines to `dline.conf`; a rehash takes
  pending K lines out of force until they are written (`m_kline.c:227`).
* IO: with every listener throttled and no ident query open a round passes over
  the first clients (`s_bsd.c:1358`); they are served in a later one. A LIST
  repeated while one is blocked can list channels twice.
* Links: two servers that dial each other at once can drop both links; AUTOCONN
  0 closes a standing link that introduces a server.

## Not modelled, and why

Parsing of `ircd.conf`, formatting of replies, logs and help (text); commands
that only read (WHO, WHOIS, STATS, TRACE...); `adns/` (third party, used
through `adns.c`, and external in Auth); zlib; the tools under `tools/`;
G lines (`GLINES` is not defined); the block allocator and the hash chains,
which are functions and sets here; string matching, whose verdicts are
constants of Channel, Mtrie and Lines; split mode, a flag that refuses joins.
In modelled parts: TOPIC, channel keys and the spambot counters; nick Q lines;
several mode changes in one line; outgoing connections in IO; the privileges of
an O line; failures to write a file.

## Plan

1. Done: ChannelTS, NickTS, Auth, History and Whowas, Channel, Conf, Lines with
   Mtrie and IpTree, IO with Dbuf, Links, Messages with Flud, Users; proofs for
   ChannelTS, NickTS, Auth, Whowas, Channel, Users, Messages and Links.
2. Next, proofs: the counters of Conf, `HopsRight` of Links.
3. Then: `match` and `collapse` against a reference definition over short
   strings, the bit maps of the block allocator, split mode.
