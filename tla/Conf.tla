-------------------------------- MODULE Conf --------------------------------
(***************************************************************************)
(* The configuration of one server while it runs: the conf items and the   *)
(* classes that ircd.conf is read into, the connections attached to them   *)
(* (I lines for users, O lines for operators, C and N lines for servers),  *)
(* and the rehash that reads the file again under all of them (s_conf.c,   *)
(* class.c, with the connection code of s_bsd.c, s_serv.c and m_oper.c).   *)
(*                                                                         *)
(* Conf items and classes are blocks of memory shared by reference: a      *)
(* block is allocated while it is in the domain of items or classes, and a *)
(* number outside the domain is a pointer to freed memory.  Nobody is given *)
(* a freed block again while something points to it, so that every use of  *)
(* freed memory shows as one; what is written there has no effect on the   *)
(* rest.  The K, D, X and Q lines are the subject of the module Lines, the *)
(* listeners of Auth.  Host masks are exact names; the resolved name and   *)
(* the address of a peer are drawn from one set, in which host h has the   *)
(* address h.                                                              *)
(***************************************************************************)
EXTENDS Integers, FiniteSets, SequencesExt

CONSTANTS Slots,       \* client structures of local connections
          Names,       \* server names
          Hosts,       \* host names, each standing for its address as well
          NoHost,      \* a host name that is not resolved, an address not known
          Callers,     \* bound: the hosts that connect to this server
          UserNames,   \* their user names
          Files,       \* the contents ircd.conf may have: sequences of lines
          Blocks,      \* bound: numbers of conf item blocks, 1..Blocks
          MaxRehash    \* bound: rehashes in one behaviour

ASSUME ConfAssumption ==
    /\ Files # {} /\ IsFiniteSet(Slots)
    /\ Blocks \in Nat /\ MaxRehash \in Nat
    /\ NoHost \notin Hosts /\ Callers \subseteq Hosts /\ UserNames \cap {"*", "unknown"} = {}

VARIABLES items,     \* the allocated conf items
          list,      \* ConfigItemList
          ilines,    \* the I lines, kept in the mtrie and in ip_i_lines
          classes,   \* the allocated classes
          clist,     \* ClassList
          queries,   \* lookups in adns that will call back with a conf item
          confs,     \* cptr->confs, the items a connection is attached to
          conn,      \* the connections
          ips,       \* ip_hash_table: clients counted per address
          left       \* rehashes still to come

vars == <<items, list, ilines, classes, clist, queries, confs, conn, ips, left>>

Nil == 0
NoField == -1                        \* a line without a class field
CnLine == {"C", "N"}
Counted == {"I", "C", "N", "O"}      \* CONF_CLIENT_MASK

\* a client structure that is not in use
Idle == [st |-> "none", name |-> Nil, host |-> NoHost, addr |-> NoHost,
         user |-> "unknown", hashed |-> FALSE, nline |-> Nil]

(***************************************************************************)
(* The handlers are functions of the memory they work on: they take it as  *)
(* a record of all variables and return it changed.                        *)
(***************************************************************************)
Mem == [items |-> items, list |-> list, ilines |-> ilines, classes |-> classes,
        clist |-> clist, queries |-> queries, confs |-> confs, conn |-> conn, ips |-> ips]

Become(M) ==
    /\ items' = M.items /\ list' = M.list /\ ilines' = M.ilines
    /\ classes' = M.classes /\ clist' = M.clist /\ queries' = M.queries
    /\ confs' = M.confs /\ conn' = M.conn /\ ips' = M.ips

\* the first element of a list that passes a test, NULL when none does
First(seq, Test(_)) ==
    LET k == SelectInSeq(seq, Test) IN IF k = 0 THEN Nil ELSE seq[k]

Without(f, S) == Restrict(f, DOMAIN f \ S)

-----------------------------------------------------------------------------
(***************************************************************************)
(* Classes (class.c).  Class 0 is the head of ClassList and never dropped. *)
(***************************************************************************)

find_class(M, n) ==
    LET k == First(M.clist, LAMBDA j : M.classes[j].num = n) IN
    IF k = Nil THEN Head(M.clist) ELSE k

\* Slip: a class that the new file redefines starts to count at 0 again.
add_class_reset(M, ln) ==
    LET t == find_class(M, ln.num)
        new == t = Head(M.clist) /\ ln.num # 0
        k == IF new THEN Min(1..Blocks \ DOMAIN M.classes) ELSE t
        Y == [num |-> ln.num, max |-> ln.max, freq |-> ln.freq, links |-> 0]
    IN  [M EXCEPT !.classes = (k :> Y) @@ @,
                  !.clist = IF new THEN <<Head(@), k>> \o Tail(@) ELSE @]

\* a class already present is updated and goes on counting, another is put in
\* right behind class 0
add_class(M, ln) ==
    LET t == find_class(M, ln.num)
        new == t = Head(M.clist) /\ ln.num # 0
        k == IF new THEN Min(1..Blocks \ DOMAIN M.classes) ELSE t
        Y == [num |-> ln.num, max |-> ln.max, freq |-> ln.freq,
              links |-> IF new THEN 0 ELSE M.classes[t].links]
    IN  [M EXCEPT !.classes = (k :> Y) @@ @,
                  !.clist = IF new THEN <<Head(@), k>> \o Tail(@) ELSE @]

\* Slip: a class that the new file does not have is freed, in use or not.
check_class_frees(M) ==
    LET gone == {k \in Range(M.clist) : M.classes[k].max < 0} IN
    [M EXCEPT !.clist = SelectSeq(@, LAMBDA k : k \notin gone),
              !.classes = Without(@, gone)]

\* the classes still marked for deletion leave the list; the ones in use are
\* freed by the last connection that is detached
check_class(M) ==
    LET gone == {k \in Range(M.clist) : M.classes[k].max < 0} IN
    [M EXCEPT !.clist = SelectSeq(@, LAMBDA k : k \notin gone),
              !.classes = Without(@, {k \in gone : M.classes[k].links = 0})]

-----------------------------------------------------------------------------
(***************************************************************************)
(* Attaching and detaching.                                                *)
(***************************************************************************)

is_attached(M, c, i) == i \in Range(M.confs[c])

\* Slip: the limit of the class is checked after the connection is counted.
attach_result_late(M, c, i) ==
    LET A == M.items[i] IN
    CASE is_attached(M, c, i) -> 1
      [] A.illegal -> -1
      [] /\ A.t = "I" /\ ~A.flined
         /\ M.classes[A.class].max > 0
         /\ M.classes[A.class].links > M.classes[A.class].max -> -3
      [] OTHER -> 0

\* what attach_conf returns: 0 attached, 1 was attached, -1 and -3 refused.
\* I lines alone are held to the limit of the class, unless they are F-lined
attach_result(M, c, i) ==
    LET A == M.items[i] IN
    CASE is_attached(M, c, i) -> 1
      [] A.illegal -> -1
      [] /\ A.t = "I" /\ ~A.flined
         /\ M.classes[A.class].max > 0
         /\ M.classes[A.class].links >= M.classes[A.class].max -> -3
      [] OTHER -> 0

\* attach_conf, which leaves everything alone unless it returns 0
attach_conf(M, c, i) ==
    LET M1 == [M EXCEPT !.confs[c] = <<i>> \o @] IN
    CASE attach_result(M, c, i) # 0 -> M
      [] M.items[i].t \notin Counted -> [M1 EXCEPT !.items[i].clients = @ + 1]
      [] OTHER -> [M1 EXCEPT !.items[i].clients = @ + 1,
                             !.classes[M.items[i].class].links = @ + 1]

\* free_conf: the lookup under way is to be cancelled by aconf->dns_query,
\* which nobody ever sets, so that it stays in adns
free_conf(M, i) == [M EXCEPT !.items = Without(@, {i})]

\* Slip: the class is left to the next rehash, which no longer finds it.
detach_conf_keeps(M, c, i) ==
    LET A == M.items[i]
        k == A.class
        M1 == [M EXCEPT !.confs[c] = Remove(@, i),
                        !.items[i].clients = @ - 1,
                        !.classes = IF A.t \in Counted THEN [@ EXCEPT ![k].links = @ - 1] ELSE @]
    IN  IF ~is_attached(M, c, i) THEN M
        ELSE IF A.clients = 1 /\ A.illegal THEN free_conf(M1, i) ELSE M1

\* detach_conf: the last connection of a class that is no more frees the class,
\* the last one of an item that is no more the item
detach_conf(M, c, i) ==
    LET A == M.items[i]
        k == A.class
        M1 == [M EXCEPT !.confs[c] = Remove(@, i),
                        !.items[i].clients = @ - 1,
                        !.classes = IF A.t \in Counted /\ M.classes[k].links > 0
                                      THEN [@ EXCEPT ![k].links = @ - 1] ELSE @]
        dead == k # Nil /\ M1.classes[k].max = -1 /\ M1.classes[k].links = 0
        M2 == IF dead THEN [M1 EXCEPT !.classes = Without(@, {k}), !.items[i].class = Nil] ELSE M1
    IN  CASE ~is_attached(M, c, i) -> M
          [] A.clients = 1 /\ A.illegal -> free_conf(M2, i)
          [] OTHER -> M2

\* every item but the ones of the given types is detached
det_confs_butmask(M, c, keep) ==
    FoldLeft(LAMBDA N, i : IF N.items[i].t \in keep THEN N ELSE detach_conf(N, c, i),
             M, M.confs[c])

\* attach_confs: all items of the given types with the name of the connection.
\* The second result is how many it counts, attached before or now
attach_confs(M, c, types) ==
    LET fit == SelectSeq(M.list, LAMBDA i : M.items[i].t \in types
                                            /\ M.items[i].name = M.conn[c].name)
    IN  FoldLeft(LAMBDA N, i : attach_conf(N, c, i), M, fit)

attach_confs_count(M, c, types) ==
    Cardinality({i \in Range(M.list) : M.items[i].t \in types
                                       /\ M.items[i].name = M.conn[c].name})

\* attach_cn_lines: the first C and the first N line for this name and host
cn_line(M, t, name, host) ==
    First(M.list, LAMBDA i : /\ M.items[i].t = t /\ M.items[i].host = host
                             /\ M.items[i].name = name)

attach_cn_lines(M, c, name, host) ==
    LET C == cn_line(M, "C", name, host)
        N == cn_line(M, "N", name, host)
        In(S, i) == IF i = Nil THEN S ELSE attach_conf(S, c, i)
    IN  In(In(M, C), N)

\* find_conf_host, find_conf_ip, find_conf_name: among the items of a client
find_conf_host(M, c, t) ==
    First(M.confs[c], LAMBDA i : M.items[i].t = t /\ M.items[i].host = M.conn[c].host)
user_fits(M, c, i) == M.items[i].user \in {"*", M.conn[c].user}
find_conf_ip(M, c, t) ==
    First(M.confs[c], LAMBDA i : /\ M.items[i].t = t /\ user_fits(M, c, i)
                                 /\ M.items[i].ip = M.conn[c].addr)
find_conf_name(M, c, t) ==
    First(M.confs[c], LAMBDA i : M.items[i].t = t /\ M.items[i].name = M.conn[c].name)

\* find_conf_by_name: in the configuration of now
find_conf_by_name(M, name, t) ==
    First(M.list, LAMBDA i : M.items[i].t = t /\ M.items[i].name = name)

\* find_conf_exact for an O line: one that has room, by its own count of clients
find_conf_exact_oper(M) ==
    First(M.list, LAMBDA i : M.items[i].t = "O"
                             /\ M.items[i].clients < M.classes[M.items[i].class].max)

find_server(M, name) ==
    {d \in Slots : M.conn[d].st = "server" /\ M.conn[d].name = name}

-----------------------------------------------------------------------------
(***************************************************************************)
(* The counter of clients per address.                                     *)
(***************************************************************************)
find_or_add_ip(M, c) == [M EXCEPT !.ips[M.conn[c].addr] = @ + 1, !.conn[c].hashed = TRUE]

\* Slip: the count is not looked at, for a connection that was never counted.
remove_one_ip_unchecked(M, c) ==
    IF M.conn[c].addr \in Hosts THEN [M EXCEPT !.ips[M.conn[c].addr] = @ - 1] ELSE M

\* Slip: only registered users are taken out of the table.
remove_one_ip_users(M, c) ==
    IF M.conn[c].st \in {"user", "oper"} /\ M.ips[M.conn[c].addr] # 0
      THEN [M EXCEPT !.ips[M.conn[c].addr] = @ - 1] ELSE M

remove_one_ip(M, c) ==
    IF M.conn[c].hashed /\ M.ips[M.conn[c].addr] # 0
      THEN [M EXCEPT !.ips[M.conn[c].addr] = @ - 1] ELSE M

\* exit_client and close_connection for a local connection.  The C line of a
\* server waits before it is tried again
exit_client(M, c) ==
    LET C == IF M.conn[c].st # "server" THEN Nil
             ELSE First(M.list, LAMBDA i : /\ M.items[i].t = "C" /\ user_fits(M, c, i)
                                           /\ M.items[i].name = M.conn[c].name
                                           /\ M.items[i].host = M.conn[c].host)
        M1 == remove_one_ip(M, c)
        M2 == IF C = Nil THEN M1 ELSE [M1 EXCEPT !.items[C].due = FALSE]
    IN  [det_confs_butmask(M2, c, {}) EXCEPT !.conn[c] = Idle]

-----------------------------------------------------------------------------
(***************************************************************************)
(* Reading ircd.conf.                                                      *)
(***************************************************************************)

\* make_conf takes a block that nothing refers to any more
fresh(M) ==
    Min((1..Blocks) \ (DOMAIN M.items \cup {q.item : q \in M.queries}
                       \cup UNION {Range(M.confs[c]) : c \in Slots}))

\* Slip: the item is not marked as waiting for the answer.
ask_unmarked(M, i, then) == [M EXCEPT !.queries = @ \cup {[item |-> i, then |-> then]}]

\* conf_dns_lookup and connect_server ask adns for the host of an item
ask(M, i, then) == [M EXCEPT !.items[i].pending = TRUE,
                             !.queries = @ \cup {[item |-> i, then |-> then]}]

\* lookup_confhost: an address is taken at once, a name asked for
lookup_confhost(M, i, ln) ==
    IF ln.numeric THEN [M EXCEPT !.items[i].ip = ln.host] ELSE ask(M, i, "store")

\* a line of a class that is not defined, or not defined yet, gets class 0
class_of(M, ln) ==
    LET k == find_class(M, ln.num) IN
    IF M.classes[k].max < 0 THEN find_class(M, 0) ELSE k

\* any line may name its class; one that is counted in a class always has one.
\* Of the others nobody looks whether the class is about to go
make_conf(M, ln) ==
    [t |-> ln.t, name |-> ln.name, host |-> ln.host, user |-> ln.user, flined |-> ln.flined,
     class |-> CASE ln.t \in Counted -> class_of(M, ln)
                 [] ln.t \notin Counted /\ ln.num = NoField -> Nil
                 [] OTHER -> find_class(M, ln.num),
     clients |-> 0, illegal |-> FALSE, pending |-> FALSE, ip |-> NoHost, due |-> TRUE]

\* an I line goes to the mtrie, a C or N line has its host looked up and goes to
\* ConfigItemList, where the other items go as they are
add_iline(M, i) == [M EXCEPT !.ilines = Append(@, i)]
add_item(M, i) == [M EXCEPT !.list = <<i>> \o @]
add_cnline(M, i, ln) == add_item(lookup_confhost(M, i, ln), i)

\* one line of the file; a line that is wrong in any way is dropped
read_line(M, ln) ==
    LET i == fresh(M)
        M1 == [M EXCEPT !.items = (i :> make_conf(M, ln)) @@ @]
    IN  CASE ln.t = "bad" -> M
          [] ln.t = "Y" -> add_class(M, ln)
          [] ln.t = "I" -> add_iline(M1, i)
          [] ln.t \in CnLine -> add_cnline(M1, i, ln)
          [] OTHER -> add_item(M1, i)

initconf(M, file) == check_class(FoldLeft(read_line, M, file))

\* clear_out_old_conf: an item in use is marked illegal and leaves the list,
\* the others are freed; every class but class 0 is marked for deletion
clear_out_old_conf(M) ==
    LET old == Range(M.list) \cup Range(M.ilines)
        used == {i \in old : M.items[i].clients > 0}
        kept == DOMAIN M.items \ (old \ used)
    IN  [M EXCEPT !.items = [i \in kept |-> [M.items[i] EXCEPT !.illegal = @ \/ i \in used]],
                  !.list = <<>>, !.ilines = <<>>,
                  !.classes = [k \in DOMAIN @ |->
                                 IF k \in Range(Tail(M.clist)) THEN [@[k] EXCEPT !.max = -1] ELSE @[k]]]

\* initclass, and the start of the server with one of the files
ColdStart == [items |-> <<>>, list |-> <<>>, ilines |-> <<>>,
              classes |-> [k \in {1} |-> [num |-> 0, max |-> 1, freq |-> 0, links |-> 0]],
              clist |-> <<1>>, queries |-> {},
              confs |-> [c \in Slots |-> <<>>], conn |-> [c \in Slots |-> Idle],
              ips |-> [h \in Hosts |-> 0]]

Init ==
    /\ left = MaxRehash
    /\ \E f \in Files : LET M == initconf(ColdStart, f) IN
         /\ items = M.items /\ list = M.list /\ ilines = M.ilines
         /\ classes = M.classes /\ clist = M.clist /\ queries = M.queries
         /\ confs = M.confs /\ conn = M.conn /\ ips = M.ips

-----------------------------------------------------------------------------
(***************************************************************************)
(* The handlers.                                                           *)
(***************************************************************************)

\* REHASH, SIGHUP, and the commands that write a line and rehash
Rehash(f) ==
    /\ left > 0
    /\ left' = left - 1
    /\ Become(initconf(clear_out_old_conf(Mem), f))

\* a connection has gone through s_auth, its host name resolved or not
Accept(c, h, resolved, user) ==
    /\ conn[c].st = "none"
    /\ conn' = [conn EXCEPT ![c] = [Idle EXCEPT !.st = "unknown", !.addr = h, !.user = user,
                                                !.host = IF resolved THEN h ELSE NoHost]]
    /\ UNCHANGED <<items, list, ilines, classes, clist, queries, confs, ips, left>>

\* from here on nothing looks at the host name of the client any more
enter(M, c) == [M EXCEPT !.conn[c].st = "user", !.conn[c].host = NoHost]

\* Slip: how many there are from the address is counted and not looked at.
attach_iline_unlimited(M, c, i) ==
    LET M1 == find_or_add_ip(M, c) IN
    IF attach_result(M1, c, i) # 0
      THEN exit_client(M1, c)
      ELSE enter(attach_conf(M1, c, i), c)

\* check_client, verify_access, attach_iline: the address is counted first, and
\* stays counted until the exit that a refusal leads to
attach_iline(M, c, i) ==
    LET M1 == find_or_add_ip(M, c)
        A == M.items[i]
        K == M.classes[A.class]
        over == K.freq > 0 /\ M1.ips[M.conn[c].addr] > K.freq /\ ~A.flined
    IN  IF over \/ attach_result(M1, c, i) # 0
          THEN exit_client(M1, c)
          ELSE enter(attach_conf(M1, c, i), c)

\* register_user for a connection that an I line fits, refused after it was
\* attached when identd or the password is wrong
Register(c, i, right) ==
    /\ conn[c].st = "unknown"
    /\ i \in Range(ilines)
    /\ LET M == attach_iline(Mem, c, i) IN
       Become(IF right \/ M.conn[c].st = "none" THEN M ELSE exit_client(M, c))
    /\ UNCHANGED left

\* m_oper
MOper(c, right) ==
    LET i == find_conf_exact_oper(Mem) IN
    /\ conn[c].st = "user"
    /\ i # Nil
    /\ Become(IF right /\ attach_result(Mem, c, i) = 0
                THEN [attach_conf(Mem, c, i) EXCEPT !.conn[c].st = "oper"]
                ELSE detach_conf(Mem, c, i))
    /\ UNCHANGED left

\* Slip: the I line, attached first, is let go of instead of the O line.
DeOperLast(c) ==
    /\ conn[c].st = "oper"
    /\ Become([detach_conf(Mem, c, Last(confs[c])) EXCEPT !.conn[c].st = "user"])
    /\ UNCHANGED left

\* MODE -o, which detaches the item attached last
DeOper(c) ==
    /\ conn[c].st = "oper"
    /\ Become([detach_conf(Mem, c, Head(confs[c])) EXCEPT !.conn[c].st = "user"])
    /\ UNCHANGED left

\* connect_inet: the client takes the names and the address of the C line
connect_inet(A) == [Idle EXCEPT !.st = "connecting", !.name = A.name,
                                !.host = A.host, !.addr = A.ip]

\* connect_server for C line i into the client structure c; up: connect_inet got
\* its socket under way
connect_server(M, i, c, up) ==
    LET A == M.items[i]
        M1 == attach_cn_lines([M EXCEPT !.conn[c] = connect_inet(A)], c, A.name, A.host)
        both == \A t \in CnLine : cn_line(M, t, A.name, A.host) # Nil
    IN  CASE A.pending \/ find_server(M, A.name) # {} -> M
          [] ~A.pending /\ find_server(M, A.name) = {} /\ A.ip = NoHost -> ask(M, i, "connect")
          [] OTHER -> IF ~up THEN M
                      ELSE IF both THEN M1
                      ELSE [det_confs_butmask(M1, c, {}) EXCEPT !.conn[c] = Idle]

\* the line that is tried goes to the end of the list
rotate(M, i) == [M EXCEPT !.list = Append(Remove(@, i), i)]

\* try_connections: the C lines that are due wait again, and one of them, the
\* first of the highest class that has room, is tried
TryConnections(c, up) ==
    LET due == {i \in Range(list) : items[i].t = "C" /\ items[i].due}
        room == {i \in due : /\ find_server(Mem, items[i].name) = {}
                             /\ classes[items[i].class].links < classes[items[i].class].max}
        Num(i) == classes[items[i].class].num
        i == First(list, LAMBDA j : j \in room /\ \A k \in room : Num(k) <= Num(j))
        M == [Mem EXCEPT !.items = [j \in DOMAIN @ |-> [@[j] EXCEPT !.due = @ /\ j \notin due]]]
    IN  /\ due # {}
        /\ conn[c].st = "none"
        /\ Become(IF i = Nil THEN M ELSE connect_server(rotate(M, i), i, c, up))
        /\ UNCHANGED left

\* aconf->hold passes
HoldPasses(i) ==
    /\ i \in Range(list) /\ items[i].t = "C" /\ ~items[i].due
    /\ items' = [items EXCEPT ![i].due = TRUE]
    /\ UNCHANGED <<list, ilines, classes, clist, queries, confs, conn, ips, left>>

\* m_connect
MConnect(name, c, up) ==
    LET i == find_conf_by_name(Mem, name, "C") IN
    /\ find_server(Mem, name) = {} /\ i # Nil
    /\ conn[c].st = "none"
    /\ Become(connect_server(Mem, i, c, up))
    /\ UNCHANGED left

\* what both callbacks do when adns answers, or gives up.  The item may have been
\* freed meanwhile, and what the answer writes is lost
answered(q, ok) ==
    LET i == q.item
        M0 == [Mem EXCEPT !.queries = @ \ {q}]
        M1 == [M0 EXCEPT !.items[i].pending = FALSE]
    IN  CASE i \notin DOMAIN items -> M0
          [] i \in DOMAIN items /\ ~ok -> M1
          [] OTHER -> [M1 EXCEPT !.items[i].ip = items[i].host]

\* conf_dns_callback
ConfDnsCallback(q, ok) ==
    /\ q \in queries /\ q.then = "store"
    /\ Become(answered(q, ok))
    /\ UNCHANGED left

\* connect_dns_callback
ConnectDnsCallback(q, ok, c, up) ==
    /\ q \in queries /\ q.then = "connect"
    /\ conn[c].st = "none"
    /\ up => ok
    /\ Become(IF ok /\ q.item \in DOMAIN items THEN connect_server(answered(q, ok), q.item, c, up)
              ELSE answered(q, ok))
    /\ UNCHANGED left

\* completed_connection: with the lines it was started with, rehashed or not
CompletedConnection(c) ==
    /\ conn[c].st = "connecting"
    /\ Become(IF \A t \in CnLine : find_conf_name(Mem, c, t) # Nil
                THEN [Mem EXCEPT !.conn[c].st = "handshake"]
                ELSE exit_client(Mem, c))
    /\ UNCHANGED left

\* check_server: the C and the N line of the name by host or by address.  All
\* lines are let go of before the two that were found are attached again: one of
\* an old file, which only this connection held, is freed memory by then.  What
\* becomes of a connection attached to freed items is not followed
check_server(M, c) ==
    LET M1 == attach_confs(M, c, CnLine)
        Pick(t) == LET h == find_conf_host(M1, c, t) IN
                   IF h # Nil THEN h ELSE find_conf_ip(M1, c, t)
        C == Pick("C")
        N == Pick("N")
        M2 == det_confs_butmask(M1, c, {})
        M3 == attach_conf(attach_conf(M2, c, N), c, C)
        M4 == attach_confs(M3, c, {"H"})
    IN  CASE attach_confs_count(M, c, CnLine) < 2 \/ C = Nil \/ N = Nil ->
               [result |-> "denied", mem |-> M2]
          [] ~({C, N} \subseteq DOMAIN M2.items \cup {Nil}) ->
               [result |-> "freed", mem |-> [M2 EXCEPT !.conn[c] = [Idle EXCEPT !.st = "freed"]]]
          [] OTHER ->
               [result |-> "ok",
                mem |-> IF M4.items[C].ip = NoHost
                          THEN [M4 EXCEPT !.items[C].ip = M.conn[c].addr] ELSE M4]

\* server_estab, as far as the configuration goes.  A server that is not a hub
\* has one link, and a link made from here is held to the user name of the N line
server_estab(M, c, right) ==
    LET N == find_conf_name(M, c, "N") IN
    IF \/ N = Nil \/ find_conf_name(M, c, "C") = Nil \/ ~right
       \/ M.conn[c].st = "handshake" /\ ~user_fits(M, c, N)
       \/ \E d \in Slots : M.conn[d].st = "server"
      THEN exit_client(M, c)
      ELSE [det_confs_butmask(M, c, {"N", "H"})
              EXCEPT !.conn[c].st = "server", !.conn[c].nline = N]

\* m_server on a connection that is not a server yet.  When the name is linked
\* already the younger of the two links goes
MServer(c, name, right, young) ==
    LET there == find_server(Mem, name)
        M0 == IF there = {} THEN Mem ELSE exit_client(Mem, CHOOSE d \in there : TRUE)
        M1 == [M0 EXCEPT !.conn[c].name = name]
        checked == check_server(M1, c)
    IN  /\ conn[c].st \in {"unknown", "handshake"}
        /\ young => there # {}
        /\ Become(IF \/ find_conf_by_name(Mem, name, "N") = Nil
                     \/ there # {} /\ young
                    THEN exit_client(Mem, c)
                    ELSE CASE checked.result = "ok" -> server_estab(checked.mem, c, right)
                           [] checked.result = "denied" -> exit_client(checked.mem, c)
                           [] checked.result = "freed" -> checked.mem)
        /\ UNCHANGED left

\* the connection ends, for whatever reason
Exit(c) ==
    /\ conn[c].st # "none"
    /\ Become(exit_client(Mem, c))
    /\ UNCHANGED left

Next ==
    \/ \E f \in Files : Rehash(f)
    \/ \E i \in 1..Blocks : HoldPasses(i)
    \/ \E q \in queries, ok \in BOOLEAN : ConfDnsCallback(q, ok)
    \/ \E c \in Slots :
         \/ \E h \in Callers, resolved \in BOOLEAN, user \in UserNames : Accept(c, h, resolved, user)
         \/ \E i \in 1..Blocks, right \in BOOLEAN : Register(c, i, right)
         \/ \E right \in BOOLEAN : MOper(c, right)
         \/ DeOper(c)
         \/ \E up \in BOOLEAN : TryConnections(c, up)
         \/ \E name \in Names, up \in BOOLEAN : MConnect(name, c, up)
         \/ \E q \in queries, ok \in BOOLEAN, up \in BOOLEAN : ConnectDnsCallback(q, ok, c, up)
         \/ CompletedConnection(c)
         \/ \E name \in Names, right \in BOOLEAN, young \in BOOLEAN : MServer(c, name, right, young)
         \/ Exit(c)

Spec == Init /\ [][Next]_vars

-----------------------------------------------------------------------------
TypeOK ==
    /\ DOMAIN items \subseteq 1..Blocks /\ DOMAIN classes \subseteq 1..Blocks
    /\ \A i \in DOMAIN items : items[i].clients \in Nat /\ items[i].ip \in Hosts \cup {NoHost}
    /\ \A k \in DOMAIN classes : classes[k].links \in Nat
    /\ \A c \in Slots : conn[c].st \in {"none", "unknown", "user", "oper",
                                        "connecting", "handshake", "server", "freed"}
    /\ ips \in [Hosts -> Nat] /\ left \in 0..MaxRehash

(* No pointer into freed memory: the lists and the connections refer to conf
   items that are allocated, and every item that is counted in a class to a
   class that is, however rehashes, exits and the answers of the resolver
   interleave (free_conf, detach_conf, check_class).  Three kinds of pointers
   are not so in the code after a rehash: those of lookups (LookupsCancelled),
   of a link that check_server has let go of (LinesKept), and of an H or L line
   to its class (ClassesKept). *)
ConfAlive ==
    /\ Range(list) \cup Range(ilines) \subseteq DOMAIN items
    /\ \A c \in Slots : Range(confs[c]) \subseteq DOMAIN items
    /\ Range(clist) \subseteq DOMAIN classes
    /\ \A i \in DOMAIN items : items[i].t \in Counted => items[i].class \in DOMAIN classes

(* An item waits for an answer exactly while one lookup for it is in adns: it
   is neither left waiting for ever, which would keep connect_server from ever
   trying it, nor asked for twice, whatever was rehashed between the question
   and the answer (conf_dns_lookup, connect_dns_callback). *)
LookupsRight ==
    \A i \in DOMAIN items :
      Cardinality({q \in queries : q.item = i}) = (IF items[i].pending THEN 1 ELSE 0)

(* What free_conf is for: an item that is freed has no lookup left whose answer
   would be written into it (delete_adns_queries).  The code fails this after a rehash. *)
LookupsCancelled == \A q \in queries : q.item \in DOMAIN items

(* What check_server says: only the lines that attach_confs attached are let go
   of, so that those the link was made with are still there to be attached
   (det_confs_butmask).  The code fails this after a rehash. *)
LinesKept == \A c \in Slots : conn[c].st # "freed"

(* What initconf says: each conf line has a pointer to the correct class, and
   not to one that check_class has freed.  The code fails this after a rehash. *)
ClassesKept == \A i \in DOMAIN items : items[i].class \in DOMAIN classes \cup {Nil}

(* Until the file is read again nothing that is in use is freed: not by an exit,
   a refusal, a failed dial or the check of a server (detach_conf frees what is
   illegal only). *)
KeptTillRehash == left = MaxRehash => LookupsCancelled /\ LinesKept /\ ClassesKept

(* Nothing is lost: an item that is in no list is held by a connection, which
   will free it, and so is a class that is not in ClassList; what is in no list
   is marked so that the last detach_conf does free it. *)
NoLeak ==
    /\ \A i \in DOMAIN items :
         \/ i \in Range(list) \cup Range(ilines) /\ ~items[i].illegal
         \/ items[i].illegal /\ \E c \in Slots : i \in Range(confs[c])
    /\ \A k \in DOMAIN classes :
         \/ k \in Range(clist) /\ classes[k].max >= 0
         \/ classes[k].max = -1 /\ \E c \in Slots : \E i \in Range(confs[c]) :
                                    items[i].t \in Counted /\ items[i].class = k

(* The counters on which limits and frees are decided are the truth: an item
   counts the connections attached to it, a class the attachments to its items,
   across rehashes that keep, replace or drop the class (attach_conf,
   detach_conf, add_class). *)
CountsRight ==
    /\ \A i \in DOMAIN items :
         items[i].clients = Cardinality({c \in Slots : i \in Range(confs[c])})
    /\ \A k \in DOMAIN classes :
         classes[k].links = Cardinality(UNION {{<<c, i>> : i \in {j \in Range(confs[c]) :
                                items[j].class = k /\ items[j].t \in Counted}} : c \in Slots})

(* The table of addresses counts the connections that went through attach_iline
   and have not exited, refused ones included while they exist: no address is
   shut out by clients that are gone (find_or_add_ip, remove_one_ip). *)
IpCounted ==
    \A h \in Hosts : ips[h] = Cardinality({c \in Slots : conn[c].hashed /\ conn[c].addr = h})

(* What a connection may rely on while it lives, whatever was rehashed since: a
   user has its I line, an operator the O line on top of it (MODE -o lets go of
   the first item), a server exactly one N line, the one serv->nline points to,
   which m_server reads without looking, and no C line. *)
HeldLines ==
    \A c \in Slots :
      LET T == [k \in DOMAIN confs[c] |-> items[confs[c][k]].t] IN
      /\ conn[c].st \in {"none", "unknown"} => T = <<>>
      /\ conn[c].st = "user" => T = <<"I">>
      /\ conn[c].st = "oper" => T = <<"O", "I">>
      /\ conn[c].st = "server" =>
           /\ "C" \notin Range(T)
           /\ {i \in Range(confs[c]) : items[i].t = "N"} = {conn[c].nline}

(* A user is let in only while the class and the address have room for it,
   counted by the connections there are and not by the counters (attach_iline,
   attach_conf). *)
WithinLimits ==
    [][\A c \in Slots : conn[c].st = "unknown" /\ conn'[c].st = "user" =>
         LET A == items'[Head(confs'[c])]
             K == classes'[A.class]
             inClass == {d \in Slots : \E i \in Range(confs'[d]) :
                                       items'[i].t \in Counted /\ items'[i].class = A.class}
             fromAddr == {d \in Slots : conn'[d].st \in {"user", "oper"}
                                        /\ conn'[d].addr = conn'[c].addr}
         IN  \/ A.flined
             \/ /\ K.max > 0 => Cardinality(inClass) <= K.max
                /\ K.freq > 0 => Cardinality(fromAddr) <= K.freq]_vars

\* Whatever a rehash drops and whatever answer comes late, the lists and the
\* connections point to no freed item, no lookup is lost or doubled and nobody is
\* without the lines he needs (free_conf, detach_conf, clear_out_old_conf).
MemorySound == TypeOK /\ ConfAlive /\ LookupsRight /\ HeldLines /\ KeptTillRehash

\* The counters of conf items, classes and addresses are exact, and nothing
\* that is out of use is kept (attach_conf, detach_conf, remove_one_ip).
CountsExact == NoLeak /\ CountsRight /\ IpCounted
=============================================================================
