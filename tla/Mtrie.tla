-------------------------------- MODULE Mtrie --------------------------------
(* The store of I and K lines, mtrie_conf.c: a trie over the pieces of a host *)
(* mask, read from the top level domain down, with two lists beside it for    *)
(* the masks that cannot be sorted and for the mask "*".                      *)
(*                                                                            *)
(* A piece of a mask is a string.  Only the last piece of a path can carry a  *)
(* wild card (the mask for all of foo.com is com, foo and a star), so match() *)
(* between pieces is the constant relation Covers.  A level of the trie is an *)
(* array of chains: the pieces whose first characters are equal modulo        *)
(* MAX_PIECE_LIST share one, which is what Slot says: a star and a j are both *)
(* 10 modulo 32.                                                              *)
(*                                                                            *)
(* CONF_ELINE, which find_user_piece and find_wild_host_piece look for in the *)
(* status, is set by nothing but those two functions themselves; the flag of  *)
(* an exempt line is CONF_FLAGS_E_LINED.  The branches are dead and left out. *)
EXTENDS Naturals, Sequences, FiniteSets, SequencesExt

CONSTANTS
  Pieces,     \* the pieces of host names and masks
  Slot,       \* [Pieces -> slots]: first character modulo MAX_PIECE_LIST
  Star,       \* the slot of the pieces that begin with '*'
  Covers,     \* match() on pieces: set of <<mask, piece>>
  Masks,      \* host masks and host names
  Form,       \* [Masks -> {"names", "odd", "any", "ip"}], the verdict of sortable()
  Path,       \* [Masks -> Seq(Pieces)]: the dns_stack of a mask of form "names"
  OddMatch    \* match() for the masks of form "odd": set of <<mask, host>>

NoConf == [user |-> "none", host |-> "none", e |-> FALSE, status |-> {}]

MatchPiece(mask, piece) == mask = piece \/ <<mask, piece>> \in Covers

IsWild(piece) == Slot[piece] = Star /\ \E p \in Pieces : <<piece, p>> \in Covers

MatchUser(mask, user) == mask \in {"*", user}

(* match() of a whole host mask.                                              *)
MatchHost(mask, host) ==
  CASE Form[mask] = "any" -> TRUE
    [] Form[mask] = "odd" -> mask = host \/ <<mask, host>> \in OddMatch
    [] Form[mask] = "names" /\ Form[host] = "names" ->
         LET p == Path[mask] h == Path[host] n == Len(p)
         IN  IF IsWild(p[n])
               THEN /\ Len(h) >= n
                    /\ SubSeq(p, 1, n - 1) = SubSeq(h, 1, n - 1)
                    /\ MatchPiece(p[n], h[n])
               ELSE p = h
    [] OTHER -> mask = host

(* The levels of the trie are named by the path that leads to them.           *)
Levels == UNION {{SubSeq(Path[m], 1, i) : i \in 0..(Len(Path[m]) - 1)} :
                   m \in {x \in Masks : Form[x] = "names"}}

Slots == {Slot[p] : p \in Pieces}

EmptyTrie == [l \in Levels |-> [s \in Slots |-> <<>>]]

NewPiece(name, flags, conf) ==
  [name |-> name, flags |-> flags, conf |-> conf, wild |-> NoConf]

(* The indices of a chain that satisfy Test, from index i on.                 *)
From(chain, i, Test(_)) == {k \in i..Len(chain) : Test(chain[k])}

Least(S) == CHOOSE k \in S : \A j \in S : k <= j
Greatest(S) == CHOOSE k \in S : \A j \in S : k >= j

IndexOf(chain, name) == Least(From(chain, 1, LAMBDA p : p.name = name))
Has(chain, name) == From(chain, 1, LAMBDA p : p.name = name) # {}

\* Slip: a piece that is there already is not marked with the flags of the new line.
UnmarkedHostPiece(chain, name, flags) ==
  IF Has(chain, name) THEN chain ELSE Append(chain, NewPiece(name, flags, NoConf))

(* find_or_add_host_piece: mark the piece, or put a new one at the end.       *)
FindOrAddHostPiece(chain, name, flags) ==
  IF Has(chain, name)
    THEN LET i == IndexOf(chain, name)
         IN  [chain EXCEPT ![i].flags = @ \union flags]
    ELSE Append(chain, NewPiece(name, flags, NoConf))

(* find_or_add_user_piece for "*@host" where the last piece is no wild card:  *)
(* the line goes into wild_conf_ptr of piece i, once.                         *)
AddWildConf(chain, i, aconf, flags) ==
  LET found == chain[i].wild
  IN  CASE found = NoConf ->
             [chain EXCEPT ![i].wild = [aconf EXCEPT !.status = @ \union flags],
                           ![i].flags = @ \union flags]
        [] found # NoConf /\ found.e ->
             [chain EXCEPT ![i].wild.status = (@ \union flags) \ {"K"},
                           ![i].flags = (@ \union flags) \ {"K"}]
        [] found # NoConf /\ ~found.e /\ "K" \in flags ->
             [chain EXCEPT ![i].wild = aconf, ![i].flags = @ \union flags]
        [] OTHER ->
             [chain EXCEPT ![i].wild.status = @ \union flags,
                           ![i].flags = @ \union flags]

(* find_or_add_user_piece otherwise: the first piece of the chain, from i on, *)
(* with no line, whatever its name, or with the same user; failing that a new *)
(* piece of the same name, without flags, at the end of the chain.            *)
AddUserConf(chain, i, aconf, flags, name) ==
  LET fit == From(chain, i, LAMBDA p : \/ p.conf = NoConf
                                       \/ /\ MatchPiece(p.name, name)
                                          /\ p.conf.user = aconf.user)
      k == Least(fit)
      found == chain[k].conf
      marked == [chain EXCEPT ![i].flags = @ \union flags]
  IN  CASE fit = {} -> Append(chain, NewPiece(name, {}, aconf))
        [] fit # {} /\ found = NoConf ->
             [marked EXCEPT ![k].conf = [aconf EXCEPT !.status = @ \union flags]]
        [] fit # {} /\ found # NoConf /\ found.e ->
             [marked EXCEPT ![k].conf.status = (@ \union flags) \ {"K"},
                            ![i].flags = @ \ {"K"}]
        [] fit # {} /\ found # NoConf /\ ~found.e /\ "I" \in found.status /\ "I" \notin flags ->
             [marked EXCEPT ![k].conf = aconf]
        [] OTHER ->
             [marked EXCEPT ![k].conf.status = @ \union flags]

FindOrAddUserPiece(chain, i, aconf, flags, name) ==
  IF aconf.user = "*" /\ ~IsWild(name)
    THEN AddWildConf(chain, i, aconf, flags)
    ELSE AddUserConf(chain, i, aconf, flags, name)

(* create_sub_mtrie: the pieces of the path are found or added level by level *)
(* and the line is stored at the last one.                                    *)
CreateSubMtrie(trie, aconf, flags) ==
  LET path == Path[aconf.host]
      n == Len(path)
      step[i \in 0..n] ==
        IF i = 0 THEN trie
        ELSE [step[i - 1] EXCEPT ![SubSeq(path, 1, i - 1)][Slot[path[i]]] =
                                    FindOrAddHostPiece(@, path[i], flags)]
  IN  [step[n] EXCEPT ![SubSeq(path, 1, n - 1)][Slot[path[n]]] =
         FindOrAddUserPiece(@, IndexOf(@, path[n]), aconf, flags, path[n])]

(* find_user_piece: the line of "*@host" if there is one, else the last one   *)
(* in the chain that matches.                                                 *)
FindUserPiece(chain, i, flags, name, user) ==
  LET hits == From(chain, i, LAMBDA p : /\ p.conf # NoConf
                                        /\ MatchPiece(p.name, name)
                                        /\ p.conf.status \cap flags # {}
                                        /\ MatchUser(p.conf.user, user))
  IN  IF chain[i].wild # NoConf THEN chain[i].wild
      ELSE IF hits = {} THEN NoConf ELSE chain[Greatest(hits)].conf

(* find_wild_host_piece: each piece of the '*' chain that matches starts the  *)
(* search anew from itself, so what counts is found after the last of them.   *)
FindWildHostPiece(level, flags, name, user) ==
  LET chain == level[Star]
      starts == From(chain, 1, LAMBDA p : /\ MatchPiece(p.name, name)
                                          /\ p.flags \cap flags # {})
      m == Greatest(starts)
      first == From(chain, m, LAMBDA p : /\ p.conf # NoConf
                                         /\ p.conf.status \cap flags # {}
                                         /\ MatchPiece(p.name, name)
                                         /\ MatchUser(p.conf.user, user))
      wild == From(chain, m, LAMBDA p : /\ p.wild # NoConf
                                        /\ p.wild.status \cap flags # {}
                                        /\ MatchPiece(p.name, name))
  IN  CASE starts = {} -> NoConf
        [] starts # {} /\ wild # {} -> chain[Greatest(wild)].wild
        [] starts # {} /\ wild = {} /\ first # {} -> chain[Greatest(first)].conf
        [] OTHER -> NoConf

(* The first of two lines that is there.                                      *)
Either(a, b) == IF a # NoConf THEN a ELSE b

(* One level of find_sub_mtrie: depth d of the path of host, with what the    *)
(* levels above have left in the static variables and the wild card of this   *)
(* level that matches.  Unless it is done the search goes on one level below. *)
SearchLevel(trie, host, user, flags, d, before, wild) ==
  LET path == Path[host]
      n == Len(path)
      chain == trie[SubSeq(path, 1, d - 1)][Slot[path[d]]]
      here == From(chain, 1, LAMBDA p : p.name = path[d] /\ p.flags \cap flags # {})
      last == IF "I" \in flags THEN Either(wild, before.last) ELSE before.last
      first == IF before.first = 0 /\ "K" \in chain[Least(here)].flags THEN d ELSE before.first
      mine == FindUserPiece(chain, Least(here), flags, path[d], user)
      below == SubSeq(path, 1, d)
      deeper == below \in Levels /\ \E s \in Slots : trie[below][s] # <<>>
      found(conf, f) == [conf |-> conf, last |-> last, first |-> f, done |-> TRUE]
  IN  IF "K" \in flags /\ "K" \in wild.status THEN found(wild, before.first)
      ELSE IF here = {} THEN found(IF "K" \in flags THEN NoConf ELSE last, before.first)
      ELSE IF d = n THEN found(Either(mine, last), first)
      ELSE IF deeper THEN [found(NoConf, first) EXCEPT !.done = FALSE]
      ELSE IF mine # NoConf /\ MatchHost(mine.host, host) THEN found(mine, first)
      ELSE found(Either(wild, last), first)

(* find_sub_mtrie from depth "from" on.  The static variables it leaves       *)
(* behind are part of the result: last_found_iline_aconf in "last" and        *)
(* first_kline_trie_list, as a depth, in "first" (0 when it is NULL).         *)
FindSubMtrie(trie, host, user, flags, from, last, first) ==
  LET path == Path[host]
      start == [conf |-> NoConf, last |-> last, first |-> first, done |-> FALSE]
      step[d \in 0..Len(path)] ==
        IF d < from THEN start
        ELSE IF step[d - 1].done THEN step[d - 1]
        ELSE SearchLevel(trie, host, user, flags, d, step[d - 1],
                         FindWildHostPiece(trie[SubSeq(path, 1, d - 1)], flags, path[d], user))
  IN  step[Len(path)]

(* The first line of a list that matches, NoConf if none does.                *)
FirstMatch(list, host, user) ==
  LET hits == From(list, 1, LAMBDA c : MatchHost(c.host, host) /\ MatchUser(c.user, user))
  IN  IF hits = {} THEN NoConf ELSE list[Least(hits)]

Duplicate(list, aconf) ==
  \E k \in DOMAIN list : list[k].host = aconf.host /\ list[k].user = aconf.user
=============================================================================
