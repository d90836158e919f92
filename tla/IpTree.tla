------------------------------- MODULE IpTree -------------------------------
(* The store of D lines, their exceptions and the K lines on addresses,      *)
(* dline_conf.c: binary trees ordered by address whose nodes stand for a     *)
(* network and hold a list of lines.  The code keeps 256 trees, one for each *)
(* first octet; they never meet, and this is one of them.  Before a tree is  *)
(* searched an "oracle" is asked, the OR of every address the lines cover.   *)
(*                                                                           *)
(* An address is the number of its Bits low bits.  A line carries ip and     *)
(* mask as the code does: the ip is not always masked.                       *)
EXTENDS Naturals, Sequences, Bitwise

CONSTANT Bits

Ones == 2^Bits - 1

(* Sums may carry one bit past the address.                                  *)
Words == 0..(2 * Ones + 1)

AndTable == [a \in Words |-> [b \in Words |-> a & b]]
OrTable == [a \in Words |-> [b \in Words |-> a | b]]
Band(a, b) == AndTable[a][b]
Bor(a, b) == OrTable[a][b]

Nil == <<>>

NewIpSubtree(ip, mask, conf) ==
  [ip |-> Band(ip, mask), mask |-> mask, conf |-> conf, left |-> Nil, right |-> Nil]

RECURSIVE InsertIpSubtree(_, _), FindIpSubtree(_, _), DeleteIpSubtree(_, _, _, _, _),
          RightMost(_), LeftMost(_), DeleteOneChild(_, _, _, _, _)

InsertIpSubtree(head, node) ==
  IF head = Nil THEN node
  ELSE IF head.ip > node.ip
         THEN [head EXCEPT !.left = InsertIpSubtree(@, node)]
         ELSE [head EXCEPT !.right = InsertIpSubtree(@, node)]

(* find_ip_subtree: the first node on the way whose network holds ip.        *)
FindIpSubtree(cur, ip) ==
  IF cur = Nil \/ cur.ip = Band(ip, cur.mask) THEN cur
  ELSE FindIpSubtree(IF cur.ip > Band(ip, cur.mask) THEN cur.left ELSE cur.right, ip)

RightMost(t) == IF t.right = Nil THEN t ELSE RightMost(t.right)
LeftMost(t) == IF t.left = Nil THEN t ELSE LeftMost(t.left)

\* Slip: a node that goes takes its right child along when it has a left one.
DeleteOneChild(head, ip, mask, clist, coins) ==
  IF head = Nil THEN [tree |-> Nil, clist |-> clist]
  ELSE
    LET l == DeleteOneChild(head.left, ip, mask, clist, coins)
        r == DeleteOneChild(head.right, ip, mask, l.clist, coins)
        inside == Band(head.ip, mask) = Band(ip, mask) /\ head.mask >= mask
    IN  IF inside
          THEN [tree |-> IF l.tree # Nil THEN l.tree ELSE r.tree, clist |-> head.conf \o r.clist]
          ELSE [tree |-> [head EXCEPT !.left = l.tree, !.right = r.tree], clist |-> r.clist]

(* delete_ip_subtree: take out the nodes inside ip/mask and put their lists  *)
(* before clist.  A node with two children is replaced by its predecessor or *)
(* its successor, as a coin falls; the node moved up takes over the other    *)
(* child only, so what hung between it and the deleted node is lost.  coins  *)
(* holds the networks whose coin chooses the predecessor.                    *)
DeleteIpSubtree(head, ip, mask, clist, coins) ==
  IF head = Nil THEN [tree |-> Nil, clist |-> clist]
  ELSE
    LET l == DeleteIpSubtree(head.left, ip, mask, clist, coins)
        r == DeleteIpSubtree(head.right, ip, mask, l.clist, coins)
        inside == Band(head.ip, mask) = Band(ip, mask) /\ head.mask >= mask
        joined == CASE l.tree = Nil -> r.tree
                    [] l.tree # Nil /\ r.tree = Nil -> l.tree
                    [] l.tree # Nil /\ r.tree # Nil /\ head.ip \in coins ->
                         [RightMost(l.tree) EXCEPT !.right = r.tree]
                    [] OTHER -> [LeftMost(r.tree) EXCEPT !.left = l.tree]
    IN  IF inside
          THEN [tree |-> joined, clist |-> head.conf \o r.clist]
          ELSE [tree |-> [head EXCEPT !.left = l.tree, !.right = r.tree], clist |-> r.clist]

Holds(line, ip) == line.ip = Band(ip, line.mask)

(* What a line adds to the oracle.                                           *)
Reach(line) == (Ones - line.mask) + line.ip

Asked(oracle, ip) == Band(oracle, ip) = ip

(* trim_Dlines: the exceptions of a list.                                    *)
TrimDlines(list) == SelectSeq(list, LAMBDA c : c.e)

(* trim_ip_Klines: drop the K lines that are not broader than mask.          *)
TrimIpKlines(list, mask) == SelectSeq(list, LAMBDA c : c.e \/ c.mask < mask)

EmptyDlines == [tree |-> Nil, oracle |-> 0, leftover |-> <<>>]

(* add_dline, an exception: behind the first line of the node that holds its *)
(* address, or on the list of the unplaced ones.                             *)
RECURSIVE PutBehindFirst(_, _, _)
PutBehindFirst(cur, ip, line) ==
  IF cur.ip = Band(ip, cur.mask)
    THEN [cur EXCEPT !.conf = <<Head(@), line>> \o Tail(@)]
    ELSE IF cur.ip > Band(ip, cur.mask)
           THEN [cur EXCEPT !.left = PutBehindFirst(@, ip, line)]
           ELSE [cur EXCEPT !.right = PutBehindFirst(@, ip, line)]

AddException(d, line) ==
  IF FindIpSubtree(d.tree, line.ip) = Nil
    THEN [d EXCEPT !.leftover = <<line>> \o @]
    ELSE [d EXCEPT !.tree = PutBehindFirst(@, line.ip, line)]

\* Slip: the unplaced exceptions are not looked at again.
RescanNothing(d, list) == [d EXCEPT !.leftover = list]

(* rescan_dlines, from the end of the list: the exceptions that now have a   *)
(* node go there.                                                            *)
RECURSIVE RescanDlines(_, _)
RescanDlines(d, list) ==
  IF list = <<>> THEN [d EXCEPT !.leftover = <<>>]
  ELSE LET rest == RescanDlines(d, Tail(list))
           s == Head(list)
       IN  IF FindIpSubtree(rest.tree, s.ip) # Nil
             THEN AddException(rest, s)
             ELSE [rest EXCEPT !.leftover = <<s>> \o @]

\* Slip: the exceptions of the narrower lines go with them.
AddDlineAlone(d, line, coins) ==
  LET node == FindIpSubtree(d.tree, line.ip)
      del == DeleteIpSubtree(d.tree, line.ip, line.mask, <<>>, coins)
      new == NewIpSubtree(line.ip, line.mask, <<line>>)
  IN  IF \/ node # Nil /\ node.mask <= line.mask
         \/ \E k \in DOMAIN d.leftover : Holds(d.leftover[k], line.ip)
        THEN d
        ELSE RescanDlines([d EXCEPT !.oracle = Bor(@, Reach(line)),
                                    !.tree = InsertIpSubtree(del.tree, new)],
                          d.leftover)

(* add_Dline.  The caller's mask is never 0 here.                            *)
AddDline(d, line, coins) ==
  LET node == FindIpSubtree(d.tree, line.ip)
      del == DeleteIpSubtree(d.tree, line.ip, line.mask, <<>>, coins)
      new == NewIpSubtree(line.ip, line.mask, <<line>> \o TrimDlines(del.clist))
  IN  IF \/ node # Nil /\ node.mask <= line.mask
         \/ \E k \in DOMAIN d.leftover : Holds(d.leftover[k], line.ip)
        THEN d
        ELSE RescanDlines([d EXCEPT !.oracle = Bor(@, Reach(line)),
                                    !.tree = InsertIpSubtree(del.tree, new)],
                          d.leftover)

NoLine == [ip |-> 0, mask |-> 0, e |-> FALSE, user |-> "none"]

(* match_Dline: an exception of the node found, else its first line.         *)
MatchDline(d, ip) ==
  LET node == FindIpSubtree(d.tree, ip)
      except == {k \in DOMAIN node.conf : node.conf[k].e /\ Holds(node.conf[k], ip)}
      line == node.conf[1]
  IN  CASE ~Asked(d.oracle, ip) \/ node = Nil -> NoLine
        [] except # {} -> node.conf[CHOOSE k \in except : \A j \in except : k <= j]
        [] Band(line.ip, line.mask) = Band(ip, line.mask) -> line
        [] OTHER -> NoLine

EmptyKlines == [tree |-> Nil, oracle |-> 0]

RECURSIVE OnList(_, _, _)
OnList(cur, ip, list) ==
  IF cur.ip = Band(ip, cur.mask) THEN [cur EXCEPT !.conf = list]
  ELSE IF cur.ip > Band(ip, cur.mask)
         THEN [cur EXCEPT !.left = OnList(@, ip, list)]
         ELSE [cur EXCEPT !.right = OnList(@, ip, list)]

(* add_ip_Kline: a new node when none holds the address, else one more line  *)
(* on the list of the node that does, unless a broader "*@" line is on it.   *)
AddIpKline(t, line, coins) ==
  LET node == FindIpSubtree(t.tree, line.ip)
      del == DeleteIpSubtree(t.tree, line.ip, line.mask, <<>>, coins)
      kept == IF line.user = "*" THEN TrimIpKlines(del.clist, 0) ELSE del.clist
      list == IF line.user = "*" THEN TrimIpKlines(node.conf, line.mask) ELSE node.conf
  IN  CASE node = Nil ->
             [tree |-> InsertIpSubtree(del.tree, NewIpSubtree(line.ip, line.mask, <<line>> \o kept)),
              oracle |-> Bor(t.oracle, Reach(line))]
        [] node # Nil /\ \E k \in DOMAIN node.conf : /\ node.conf[k].user = "*"
                                                     /\ node.conf[k].mask < line.mask -> t
        [] OTHER ->
             [tree |-> OnList(t.tree, line.ip, <<line>> \o list),
              oracle |-> Bor(t.oracle, Reach(line))]

(* match_ip_Kline: K lines only reach this tree, so the last one that        *)
(* matches wins.                                                             *)
MatchIpKline(t, ip, user) ==
  LET node == FindIpSubtree(t.tree, ip)
      hits == {k \in DOMAIN node.conf : /\ Holds(node.conf[k], ip)
                                        /\ node.conf[k].user \in {"*", user}}
  IN  IF ~Asked(t.oracle, ip) \/ node = Nil \/ hits = {} THEN NoLine
      ELSE node.conf[CHOOSE k \in hits : \A j \in hits : k >= j]
=============================================================================
