-------------------------------- MODULE Lines --------------------------------
(* I, K and D lines: who may use the server.  Lines come from ircd.conf and   *)
(* from the two files the operators' KLINE and DLINE append to; in memory     *)
(* they live in the stores of Mtrie (user@host) and IpTree (addresses).  The  *)
(* commands change memory and file apart, a file that somebody is editing is  *)
(* locked and what should go there waits on PendingLines, a rehash throws the *)
(* memory away and reads the files, and the clients who are already connected *)
(* are looked at by the next check_pings.                                     *)
EXTENDS Mtrie

CONSTANTS
  Bits,        \* low bits of an address, see IpTree
  Net,         \* [masks of form "ip" -> [ip, mask]] as is_address reads them
  NickNet,     \* [addresses -> masks of form "ip"]: the /24 of "DLINE nick"
  Wide,        \* masks with fewer than NONWILDCHARS characters that are no wild cards
  Cctld,       \* the top level domains of two letters
  Folk,        \* [clients -> [user, host, ip]]
  Worlds,      \* what a run may begin with, see TypeOK
  MaxTime      \* bound on the clock

T == INSTANCE IpTree WITH Bits <- Bits

VARIABLES
  world,       \* ircd.conf, what the operators may ask for, and how often
  kfile,       \* kline.conf
  dfile,       \* dline.conf
  PendingLines,
  locked,      \* the files an editor holds a lock on
  mem,         \* the stores
  given,       \* the lines handed to the stores since they were last cleared
  temps,       \* temporary_klines and temporary_ip_klines
  clock,
  rehashed, dline_in_progress,
  local,       \* [clients -> {"out", "unknown", "person"}]
  graced,      \* IsElined
  owed         \* the checks of connected clients that a new line calls for

vars == <<world, kfile, dfile, PendingLines, locked, mem, given, temps, clock,
          rehashed, dline_in_progress, local, graced, owed>>

files == <<kfile, dfile, PendingLines, locked>>
people == <<local, graced>>

NoIp == 2^(Bits + 1)

IsAddress(host) == Form[host] = "ip"

Masked(net) == T!Band(net.ip, net.mask)

ConfOf(line) == [user |-> line.user, host |-> line.host, e |-> line.e, status |-> {line.type}]

NetOf(line, ip) == [ip |-> ip, mask |-> Net[line.host].mask, e |-> line.e, user |-> line.user]

EmptyMem == [trie |-> EmptyTrie, oddI |-> <<>>, oddK |-> <<>>, wildI |-> <<>>, ipI |-> <<>>,
             klines |-> T!EmptyKlines, dlines |-> T!EmptyDlines]

Unless(test, list, conf) == IF test THEN list ELSE <<conf>> \o list

(* add_mtrie_conf_entry, add_ip_Iline, add_ip_Kline, add_Dline, add_dline: a  *)
(* line finds its store.  ip is the address the caller gives an address line. *)
AddLine(m, line, ip, coins) ==
  LET c == ConfOf(line)
      form == Form[line.host]
  IN  CASE line.type = "I" /\ form = "ip" ->
             [m EXCEPT !.ipI = <<NetOf(line, ip)>> \o @]
        [] line.type = "I" /\ form = "odd" ->
             [m EXCEPT !.oddI = Unless(Duplicate(@, c), @, c)]
        [] line.type = "I" /\ form = "any" ->
             [m EXCEPT !.wildI = Unless(FirstMatch(@, line.host, c.user).user = c.user, @, c)]
        [] line.type = "K" /\ form = "ip" ->
             [m EXCEPT !.klines = T!AddIpKline(@, NetOf(line, ip), coins)]
        [] line.type = "K" /\ form \in {"odd", "any"} ->
             [m EXCEPT !.oddK = Unless(Duplicate(@, c), @, c)]
        [] line.type = "D" /\ line.e ->
             [m EXCEPT !.dlines = T!AddException(@, NetOf(line, ip))]
        [] line.type = "D" /\ ~line.e ->
             [m EXCEPT !.dlines = T!AddDline(@, NetOf(line, ip), coins)]
        [] OTHER ->
             [m EXCEPT !.trie = CreateSubMtrie(@, c, c.status)]

(* read_conf_files: everything is cleared, then ircd.conf, kline.conf and     *)
(* dline.conf are read, and an address is masked.                             *)
ReadConfFiles(ircd, k, d, coins) ==
  FoldLeft(LAMBDA m, line :
             AddLine(m, line, IF IsAddress(line.host) THEN Masked(Net[line.host]) ELSE 0, coins),
           EmptyMem, ircd \o k \o d)

Given(line, ip) == [line |-> line, ip |-> ip]

ReadLines(ircd, k, d) ==
  {Given(l, IF IsAddress(l.host) THEN Masked(Net[l.host]) ELSE NoIp) : l \in Range(ircd \o k \o d)}

(* The temporary K lines that are over are taken out when somebody looks.     *)
ExpireTempKlines(list) == SelectSeq(list, LAMBDA t : t.hold > clock)

(* find_tkline: the name list first, then the address list.                   *)
FindTkline(t, host, user, ip) ==
  LET names == ExpireTempKlines(t.names)
      nets == ExpireTempKlines(t.nets)
      byName == \E k \in DOMAIN names : /\ MatchUser(names[k].user, user)
                                        /\ MatchHost(names[k].host, host)
      byNet == \E k \in DOMAIN nets : /\ ip # NoIp
                                      /\ MatchUser(nets[k].user, user)
                                      /\ nets[k].ip = T!Band(ip, nets[k].mask)
  IN  IF byName THEN [hit |-> TRUE, temps |-> [t EXCEPT !.names = names]]
      ELSE [hit |-> byNet, temps |-> [names |-> names, nets |-> nets]]

(* find_matching_ip_i_line *)
FindMatchingIpILine(user, ip) ==
  LET hits == From(mem.ipI, 1, LAMBDA c : T!Holds(c, ip) /\ MatchUser(c.user, user))
      c == mem.ipI[Least(hits)]
  IN  IF ip = NoIp \/ hits = {} THEN NoConf
      ELSE [user |-> c.user, host |-> "any", e |-> c.e, status |-> {"I"}]

(* What a search of the trie returns, when there is a trie.                   *)
InTrie(search) == IF mem.trie = EmptyTrie THEN NoConf ELSE search.conf

(* match_ip_Kline *)
NetKline(line, ip) ==
  IF ip = NoIp \/ line = T!NoLine THEN NoConf
  ELSE [user |-> line.user, host |-> "any", e |-> FALSE, status |-> {"K"}]

(* The K line that overrules the I line: in the trie, from the level on where *)
(* the search for the I line met one, then in the other stores.               *)
Overruled(iline, host, user, ip, itrie) ==
  Either(InTrie(FindSubMtrie(mem.trie, host, user, {"K"},
                             IF itrie.first = 0 THEN 1 ELSE itrie.first,
                             itrie.last, itrie.first)),
         Either(FirstMatch(mem.oddK, host, user),
                Either(NetKline(T!MatchIpKline(mem.klines, ip, user), ip), iline)))

(* The I line, of the ones the stores give, and what overrules it.            *)
Decide(host, user, ip, odd, itrie) ==
  LET lone == Either(InTrie(itrie), FindMatchingIpILine(user, ip))
      iline == Either(odd, Either(lone, FirstMatch(mem.wildI, host, user)))
  IN  IF odd.e THEN odd
      ELSE IF lone.e THEN lone
      ELSE IF iline = NoConf \/ iline.e THEN iline
      ELSE Overruled(iline, host, user, ip, itrie)

(* find_matching_mtrie_conf: an I line, then the K line that overrules it.    *)
FindMatchingMtrieConf(host, user, ip) ==
  Decide(host, user, ip, FirstMatch(mem.oddI, host, user),
         FindSubMtrie(mem.trie, host, user, {"I"}, 1, NoConf, 0))

\* Slip: temporary K lines are forgotten when a client registers.
AccessWithoutTemps(aconf, tk) ==
  [temps |-> temps, e |-> aconf.e, admit |-> "I" \in aconf.status]

(* The line found decides whether the temporary K lines are looked at.        *)
Access(aconf, tk) ==
  LET look == aconf # NoConf /\ ~aconf.e
  IN  [temps |-> IF look THEN tk.temps ELSE temps,
       e |-> aconf.e,
       admit |-> "I" \in aconf.status /\ ~(look /\ tk.hit)]

(* verify_access: what becomes of a client who registers.                     *)
VerifyAccess(c) ==
  LET f == Folk[c]
  IN  Access(FindMatchingMtrieConf(f.host, f.user, f.ip), FindTkline(temps, f.host, f.user, f.ip))

(* find_is_klined, is_klined *)
IsKlined(host, user, ip) ==
  \/ FindTkline(temps, host, user, ip).hit
  \/ "K" \in FindMatchingMtrieConf(host, user, ip).status

(* find_kill *)
FindKill(c) == c \notin graced /\ IsKlined(Folk[c].host, Folk[c].user, Folk[c].ip)

(* conf_connect_allowed, and the test of check_pings *)
Dlined(c) == LET d == T!MatchDline(mem.dlines, Folk[c].ip)
             IN  d # T!NoLine /\ ~d.e

Init ==
  /\ world \in Worlds
  /\ kfile = world.kfile /\ dfile = world.dfile
  /\ PendingLines = <<>> /\ locked = {}
  /\ \E coins \in SUBSET world.coins : mem = ReadConfFiles(world.conf, kfile, dfile, coins)
  /\ given = ReadLines(world.conf, kfile, dfile)
  /\ temps = [names |-> <<>>, nets |-> <<>>]
  /\ clock = 0
  /\ rehashed = TRUE /\ dline_in_progress = FALSE
  /\ local = [c \in DOMAIN Folk |-> "out"] /\ graced = {}
  /\ owed = {}

May(op) == op \in world.may /\ world.left > 0

Spend == world' = [world EXCEPT !.left = @ - 1]

(* The coins of the nodes that a change of the trees may delete.              *)
Coins == SUBSET world.coins

(* rehash: memory is what the files say.                                      *)
Reread(k, d) ==
  /\ \E coins \in Coins : mem' = ReadConfFiles(world.conf, k, d, coins)
  /\ given' = ReadLines(world.conf, k, d)

Rehash ==
  /\ May("rehash") /\ Spend
  /\ Reread(kfile, dfile)
  /\ rehashed' = TRUE
  /\ owed' = {"K", "D"}
  /\ UNCHANGED <<files, temps, clock, dline_in_progress, people>>

(* m_rehash, "REHASH DLINES" *)
RehashDlines ==
  /\ May("rehash dlines") /\ Spend
  /\ dline_in_progress' = TRUE
  /\ Reread(kfile, dfile)
  /\ rehashed' = TRUE
  /\ owed' = {"K", "D"}
  /\ UNCHANGED <<files, temps, clock, people>>

(* flush_temp_klines, "REHASH TKLINES" *)
RehashTklines ==
  /\ May("rehash tklines") /\ Spend
  /\ temps' = [names |-> <<>>, nets |-> <<>>]
  /\ UNCHANGED <<files, mem, given, clock, rehashed, dline_in_progress, people, owed>>

(* AddPending and WritePendingLines: the newest line is first on the list and *)
(* the whole list goes into the file of the command that finds it unlocked.   *)
Flushed(file) == file \o PendingLines

IpOf(line) == IF IsAddress(line.host) THEN Net[line.host].ip ELSE NoIp

(* m_kline takes a mask unless user and host together are too wild.           *)
Narrow(line) == ~(line.user = "*" /\ line.host \in Wide)

(* cluster: "KLINE nick" bans the network of an address and the domain of a   *)
(* name, which has one piece more under a top level domain of two letters.    *)
Cluster(c) ==
  LET h == Path[Folk[c].host]
      keep == IF h[1] \in Cctld THEN 3 ELSE 2
  IN  IF IsAddress(Folk[c].host) THEN {NickNet[Folk[c].ip]}
      ELSE {m \in Masks : /\ Form[m] = "names"
                          /\ Len(h) > keep
                          /\ Path[m] = Append(SubSeq(h, 1, keep), "*")}

(* m_kline with a time: only memory, until the time is over.                  *)
KlineTemp(line) ==
  LET ip == IpOf(line)
      seen == FindTkline(temps, line.host, line.user, ip).temps
      entry == [user |-> line.user, host |-> line.host, hold |-> clock + 1,
                ip |-> IF ip = NoIp THEN 0 ELSE ip,
                mask |-> IF ip = NoIp THEN 0 ELSE Net[line.host].mask]
  IN  /\ May("tkline") /\ Spend
      /\ Narrow(line)
      /\ ~IsKlined(line.host, line.user, ip)
      /\ temps' = IF entry.ip = 0 THEN [seen EXCEPT !.names = <<entry>> \o @]
                  ELSE [seen EXCEPT !.nets = <<entry>> \o @]
      /\ rehashed' = TRUE /\ dline_in_progress' = FALSE
      /\ owed' = owed \union {"K"}
      /\ UNCHANGED <<files, mem, given, clock, people>>

(* m_kline: memory, then the file or the list of pending lines.               *)
Kline(line) ==
  LET ip == IpOf(line)
  IN  /\ May("kline") /\ Spend
      /\ Narrow(line)
      /\ ~IsKlined(line.host, line.user, ip)
      /\ temps' = FindTkline(temps, line.host, line.user, ip).temps
      /\ owed' = IF "k" \notin locked /\ PendingLines # <<>> THEN {"K", "D"}
                 ELSE owed \union {"K"}
      /\ \/ /\ "k" \in locked
            /\ \E coins \in Coins : mem' = AddLine(mem, line, ip, coins)
            /\ given' = given \union {Given(line, ip)}
            /\ PendingLines' = <<line>> \o PendingLines
            /\ UNCHANGED <<kfile, rehashed, dline_in_progress>>
         \/ /\ "k" \notin locked
            /\ IF PendingLines # <<>>
                 THEN Reread(Flushed(kfile), dfile)
                 ELSE /\ \E coins \in Coins : mem' = AddLine(mem, line, ip, coins)
                      /\ given' = given \union {Given(line, ip)}
            /\ kfile' = Append(Flushed(kfile), line)
            /\ PendingLines' = <<>>
            /\ rehashed' = TRUE /\ dline_in_progress' = FALSE
      /\ UNCHANGED <<dfile, locked, clock, people>>

KlineNick == \E c \in DOMAIN Folk : \E host \in Cluster(c) :
  /\ "kline nick" \in world.may
  /\ local[c] = "person" /\ c \notin graced
  /\ Kline([type |-> "K", user |-> Folk[c].user, host |-> host, e |-> FALSE])

(* m_dline on an address as given, or on the network of a client here.  The   *)
(* address goes into memory as it is, and into the file.                      *)
Dline(line, ip) ==
  /\ May("dline") /\ Spend
  /\ T!MatchDline(mem.dlines, ip) = T!NoLine
  /\ owed' = IF "d" \notin locked /\ PendingLines # <<>> THEN {"K", "D"}
             ELSE owed \union {"D"}
  /\ \/ /\ "d" \in locked
        /\ \E coins \in Coins : mem' = AddLine(mem, line, ip, coins)
        /\ given' = given \union {Given(line, ip)}
        /\ PendingLines' = <<line>> \o PendingLines
        /\ UNCHANGED <<dfile, rehashed, dline_in_progress>>
     \/ /\ "d" \notin locked
        /\ IF PendingLines # <<>>
             THEN Reread(kfile, Flushed(dfile))
             ELSE /\ \E coins \in Coins : mem' = AddLine(mem, line, ip, coins)
                  /\ given' = given \union {Given(line, ip)}
        /\ dfile' = Append(Flushed(dfile), line)
        /\ PendingLines' = <<>>
        /\ rehashed' = TRUE /\ dline_in_progress' = TRUE
  /\ UNCHANGED <<kfile, locked, temps, clock, people>>

DlineAddress == \E h \in world.nets :
  Dline([type |-> "D", user |-> "*", host |-> h, e |-> FALSE], Net[h].ip)

DlineNick == \E c \in DOMAIN Folk :
  /\ local[c] = "person" /\ c \notin graced
  /\ Folk[c].ip \in DOMAIN NickNet
  /\ Dline([type |-> "D", user |-> "*", host |-> NickNet[Folk[c].ip], e |-> FALSE], Folk[c].ip)

(* remove_tkline_match: an address list entry goes by its network alone.      *)
TklineMatches(line) ==
  LET ip == IpOf(line)
  IN  IF ip # NoIp /\ ip # 0
        THEN From(temps.nets, 1, LAMBDA t : T!Band(ip, t.mask) = t.ip)
        ELSE From(temps.names, 1, LAMBDA t : t.host = line.host /\ t.user = line.user)

\* Slip: the line is taken out of the file and stays in memory.
UnklineFileOnly(line) ==
  /\ May("unkline") /\ Spend
  /\ kfile' = SelectSeq(kfile, LAMBDA l : l.host # line.host \/ l.user # line.user)
  /\ UNCHANGED <<dfile, PendingLines, locked, mem, given, temps, clock, rehashed,
                 dline_in_progress, people, owed>>

(* The file rewritten without some lines, through a temporary file.           *)
FileWithout(file, type, lines) ==
  SelectSeq(file, LAMBDA l : l.type # type \/ l.e \/ l \notin lines)

(* m_unkline: a temporary line if there is one, else the line in the file and *)
(* a rehash, whether the line was there or not.                               *)
Unkline(line) ==
  LET hits == TklineMatches(line)
      kept == FileWithout(kfile, "K", {l \in Range(kfile) : /\ l.host = line.host
                                                       /\ l.user = line.user})
  IN  /\ May("unkline") /\ Spend
      /\ \/ /\ hits # {}
            /\ temps' = IF IpOf(line) \notin {0, NoIp}
                          THEN [temps EXCEPT !.nets = RemoveAt(@, Least(hits))]
                          ELSE [temps EXCEPT !.names = RemoveAt(@, Least(hits))]
            /\ UNCHANGED <<kfile, mem, given, rehashed, owed>>
         \/ /\ hits = {}
            /\ kfile' = kept
            /\ Reread(kept, dfile)
            /\ rehashed' = TRUE
            /\ owed' = {"K", "D"}
            /\ UNCHANGED temps
      /\ UNCHANGED <<dfile, PendingLines, locked, clock, dline_in_progress, people>>

(* m_undline *)
Undline(host) ==
  LET kept == FileWithout(dfile, "D", {l \in Range(dfile) : l.host = host})
  IN  /\ May("undline") /\ Spend
      /\ dfile' = kept
      /\ Reread(kfile, kept)
      /\ rehashed' = TRUE
      /\ owed' = {"K", "D"}
      /\ UNCHANGED <<kfile, PendingLines, locked, temps, clock, dline_in_progress, people>>

(* Somebody edits a file: a lock file with the editor's pid lies beside it.   *)
Lock(f) ==
  /\ May("lock") /\ f \notin locked /\ Spend
  /\ locked' = locked \union {f}
  /\ UNCHANGED <<kfile, dfile, PendingLines, mem, given, temps, clock, rehashed,
                 dline_in_progress, people, owed>>

Unlock(f) ==
  /\ f \in locked
  /\ locked' = locked \ {f}
  /\ UNCHANGED <<world, kfile, dfile, PendingLines, mem, given, temps, clock, rehashed,
                 dline_in_progress, people, owed>>

(* accept_connection: D lines are looked at here.                             *)
Accept(c) ==
  /\ c \in world.folk /\ local[c] = "out" /\ ~Dlined(c)
  /\ local' = [local EXCEPT ![c] = "unknown"]
  /\ UNCHANGED <<world, files, mem, given, temps, clock, rehashed, dline_in_progress, graced, owed>>

(* register_user: I and K lines are looked at here.                           *)
Register(c) ==
  /\ local[c] = "unknown"
  /\ \E v \in {VerifyAccess(c)} :
       /\ temps' = v.temps
       /\ local' = [local EXCEPT ![c] = IF v.admit THEN "person" ELSE "out"]
       /\ graced' = IF v.admit /\ v.e THEN graced \union {c} ELSE graced
  /\ UNCHANGED <<world, files, mem, given, clock, rehashed, dline_in_progress, owed>>

\* Slip: the grace of an E line outlives the client.
LeaveGraced(c) ==
  /\ local[c] # "out"
  /\ local' = [local EXCEPT ![c] = "out"]
  /\ UNCHANGED <<world, files, mem, given, temps, clock, rehashed, dline_in_progress, graced, owed>>

(* exit_client *)
Leave(c) ==
  /\ local[c] # "out"
  /\ local' = [local EXCEPT ![c] = "out"] /\ graced' = graced \ {c}
  /\ UNCHANGED <<world, files, mem, given, temps, clock, rehashed, dline_in_progress, owed>>

(* The clients check_pings puts on dying_clients because of a line.           *)
Dying ==
  CASE ~rehashed -> {}
    [] rehashed /\ dline_in_progress -> {c \in DOMAIN Folk : local[c] # "out" /\ Dlined(c)}
    [] OTHER -> {c \in DOMAIN Folk : local[c] = "person" /\ FindKill(c)}

CheckPings ==
  LET seen == {c \in DOMAIN Folk : local[c] = "person" /\ c \notin graced}
      looks == {FindTkline(temps, Folk[c].host, Folk[c].user, Folk[c].ip).temps : c \in seen}
  IN  /\ rehashed
      /\ local' = [c \in DOMAIN Folk |-> IF c \in Dying THEN "out" ELSE local[c]]
      /\ graced' = graced \ Dying
      /\ temps' = IF dline_in_progress \/ seen = {} THEN temps
                  ELSE [names |-> ExpireTempKlines(temps.names),
                        nets |-> IF \A t \in looks : t.nets = temps.nets THEN temps.nets
                                 ELSE ExpireTempKlines(temps.nets)]
      /\ owed' = owed \ (IF dline_in_progress THEN {"D"} ELSE {"K"})
      /\ rehashed' = FALSE /\ dline_in_progress' = FALSE
      /\ UNCHANGED <<world, files, mem, given, clock>>

Tick ==
  /\ clock < MaxTime /\ "tkline" \in world.may
  /\ clock' = clock + 1
  /\ UNCHANGED <<world, files, mem, given, temps, rehashed, dline_in_progress, people, owed>>

Next ==
  \/ Rehash \/ RehashDlines \/ RehashTklines
  \/ \E line \in world.asks : KlineTemp(line) \/ Kline(line) \/ Unkline(line)
  \/ KlineNick \/ DlineAddress \/ DlineNick
  \/ \E h \in world.nets : Undline(h)
  \/ \E f \in {"k", "d"} : Lock(f) \/ Unlock(f)
  \/ \E c \in DOMAIN Folk : Accept(c) \/ Register(c) \/ Leave(c)
  \/ CheckPings \/ Tick

Spec == Init /\ [][Next]_vars

-----------------------------------------------------------------------------
(* Properties *)

(* What a line is meant to do, whatever store it lies in.                     *)
Means(line, c) ==
  /\ MatchUser(line.user, Folk[c].user)
  /\ IF IsAddress(line.host)
       THEN T!Band(Folk[c].ip, Net[line.host].mask) = Masked(Net[line.host])
       ELSE MatchHost(line.host, Folk[c].host)

Network(line) == {a \in 0..T!Ones : T!Band(a, Net[line.host].mask) = Masked(Net[line.host])}

GivenOf(type) == {g.line : g \in {x \in given : x.line.type = type}}

Verdict(c) == FindMatchingMtrieConf(Folk[c].host, Folk[c].user, Folk[c].ip)

LineType == [type : {"I", "K", "D"}, user : STRING, host : Masks, e : BOOLEAN]

(* The lines, the lists and the flags have their types; only people are       *)
(* graced with an E line; a temporary line has at most its full time to run.  *)
TypeOK ==
  /\ \A l \in Range(kfile) \union Range(dfile) \union Range(PendingLines) \union {g.line : g \in given} :
       l \in LineType
  /\ locked \subseteq {"k", "d"} /\ owed \subseteq {"K", "D"}
  /\ clock \in 0..MaxTime
  /\ rehashed \in BOOLEAN /\ dline_in_progress \in BOOLEAN
  /\ local \in [DOMAIN Folk -> {"out", "unknown", "person"}]
  /\ \A c \in graced : local[c] = "person"
  /\ \A t \in Range(temps.names) \union Range(temps.nets) : t.hold <= clock + 1

(* The K lines an administrator can rely on: they name hosts, not users; no   *)
(* domain piece in use hashes to the chain of the wild cards; no K line has   *)
(* the mask of an I line; and of two on addresses the narrower one does not   *)
(* hold the first address of the broader, whose node it would be put in.      *)
HostBansOnly ==
  LET K == GivenOf("K")
      I == GivenOf("I")
  IN  /\ \A l \in K : l.user = "*"
      /\ \A l \in K \union I : Form[l.host] = "names" =>
           \A i \in DOMAIN Path[l.host] : Slot[Path[l.host][i]] = Star => IsWild(Path[l.host][i])
      /\ \A l, m \in {x \in K : IsAddress(x.host)} :
           Network(l) \subseteq Network(m) /\ Network(l) # Network(m)
             => Masked(Net[m.host]) \notin Network(l)
      /\ \A l \in K, m \in I : l.host # m.host
      /\ \A g \in given : IsAddress(g.line.host) => g.ip = Masked(Net[g.line.host])

(* The K lines for a client lie all in the trie or all beside it, or the trie *)
(* has no I line for it.  Otherwise the search of the trie for a K line may   *)
(* return that I line, and the other stores are not looked at.                *)
OneStore(c) ==
  \/ \A l \in GivenOf("K") : Form[l.host] = "names"
  \/ \A l \in GivenOf("K") : Form[l.host] # "names"
  \/ \A l \in GivenOf("I") : Form[l.host] = "names" => ~Means(l, c)

(* A client with an I line that is no E line has a K line as its verdict      *)
(* exactly when some K line in memory is meant for it.                        *)
BannedRight(c) ==
  \A v \in {Verdict(c)} :
    (v # NoConf /\ ~v.e) => ("K" \in v.status <=> \E l \in GivenOf("K") : Means(l, c))

(* find_matching_mtrie_conf finds the host bans, whatever the order the lines *)
(* were added in: none is lost on the way through the trie, its wild pieces,  *)
(* the list of odd masks and the addresses, and nobody is banned by a line    *)
(* for somebody else.  What the bans and the I lines must not be is in        *)
(* HostBansOnly and OneStore.                                                 *)
HostBansRight == HostBansOnly => \A c \in DOMAIN Folk : OneStore(c) => BannedRight(c)

(* What the comments of find_matching_mtrie_conf say: without a K line in the *)
(* trie the other stores are tried.  The code fails this for clients that     *)
(* OneStore leaves out.                                                       *)
StoresTried == HostBansOnly => \A c \in DOMAIN Folk : BannedRight(c)

(* D lines may overlap and contain each other.  An exception may not          *)
(*   - cover more than a D line, unless a D line covers more than it does: it *)
(*     is not placed;                                                         *)
(*   - hold the first address of a D line that it does not cover: if it came  *)
(*     first the D line is thrown away;                                       *)
(* and the addresses are written with their masks.                            *)
DlinesPlaced ==
  LET D == {l \in GivenOf("D") : ~l.e}
      E == {l \in GivenOf("D") : l.e}
  IN  /\ \A e \in E, d \in D :
           \/ Network(e) \cap Network(d) = {} \/ Network(e) \subseteq Network(d)
           \/ \E m \in D : Network(e) \subseteq Network(m) /\ Network(e) # Network(m)
      /\ \A e \in E, d \in D : Masked(Net[d.host]) \in Network(e) => Network(d) \subseteq Network(e)
      /\ \A g \in given : g.line.type = "D" => g.ip = Masked(Net[g.line.host])

(* match_Dline refuses an address exactly when a D line covers it and no      *)
(* exception does, in whatever order lines and exceptions came: a broader D   *)
(* line that comes later takes out the narrower ones, keeps their exceptions  *)
(* and loses nothing beside it, a narrower one is dropped, and exceptions     *)
(* that came before their D line wait on the list of leftovers.               *)
DlinesRight == DlinesPlaced =>
  \A a \in 0..T!Ones :
    LET d == T!MatchDline(mem.dlines, a)
    IN  (d # T!NoLine /\ ~d.e) <=>
          /\ \E l \in GivenOf("D") : ~l.e /\ a \in Network(l)
          /\ \A l \in GivenOf("D") : l.e => a \notin Network(l)

(* Nobody stays who is banned: once the check that a new line calls for has   *)
(* been made, no connected client has a D line, and no registered one a K     *)
(* line, permanent or temporary.  Registration, check_pings and the commands  *)
(* look at the lines in three different ways, and a rehash changes them all.  *)
NoEscape ==
  /\ "K" \notin owed => \A c \in DOMAIN Folk : local[c] = "person" => ~FindKill(c)
  /\ "D" \notin owed => \A c \in DOMAIN Folk : local[c] # "out" => ~Dlined(c)

(* A line is in memory only as long as a file has it or it waits to be        *)
(* written: what UNKLINE and UNDLINE took out of the files is gone.           *)
MemoryHasSource ==
  {g.line : g \in given} \subseteq
     Range(world.conf) \union Range(kfile) \union Range(dfile) \union Range(PendingLines)

\* The mask trie and the IP tree answer what a search of the list of the
\* lines would (find_matching_mtrie_conf, match_Dline).
StoresRight == TypeOK /\ HostBansRight /\ DlinesRight
=============================================================================
