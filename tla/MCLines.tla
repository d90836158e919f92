------------------------------- MODULE MCLines -------------------------------
(* Small worlds for Lines: a few host names under one domain, addresses of    *)
(* three bits, and the files a server may start with.                         *)
EXTENDS Lines

MCPieces == {"com", "foo", "fox", "joe", "x", "xppp", "y", "*", "*ppp", "num"}
MCSlot == [p \in MCPieces |-> CASE p = "com" -> 3 [] p \in {"foo", "fox"} -> 6 [] p \in {"x", "xppp"} -> 24
                    [] p = "y" -> 25 [] p = "num" -> 17 [] OTHER -> 10]
MCCovers == ({"*"} \X MCPieces) \union {<<"*ppp", "xppp">>}

Dns == ("foo.com" :> <<"com", "foo">>) @@ ("*.foo.com" :> <<"com", "foo", "*">>)
       @@ ("x.foo.com" :> <<"com", "foo", "x">>) @@ ("xppp.foo.com" :> <<"com", "foo", "xppp">>)
       @@ ("*ppp.foo.com" :> <<"com", "foo", "*ppp">>)
       @@ ("y.x.foo.com" :> <<"com", "foo", "x", "y">>)
       @@ ("fox.com" :> <<"com", "fox">>) @@ ("y.fox.com" :> <<"com", "fox", "y">>)
       @@ ("joe.com" :> <<"com", "joe">>) @@ ("y.joe.com" :> <<"com", "joe", "y">>)

Nets == ("5" :> [ip |-> 5, mask |-> 7]) @@ ("4/6" :> [ip |-> 4, mask |-> 6])
        @@ ("5/6" :> [ip |-> 5, mask |-> 6]) @@ ("4/4" :> [ip |-> 4, mask |-> 4])
        @@ ("6/6" :> [ip |-> 6, mask |-> 6]) @@ ("7" :> [ip |-> 7, mask |-> 7]) @@ ("1" :> [ip |-> 1, mask |-> 7])
        @@ ("3" :> [ip |-> 3, mask |-> 7])

MCNickNet == [i \in {4,5} |-> "4/6"]

MCMasks == DOMAIN Dns \union DOMAIN Nets \union {"*", "*x*"}
MCWide == {"*", "*x*"}

MCForm == [m \in MCMasks |-> IF m \in DOMAIN Dns THEN "names" ELSE IF m \in DOMAIN Nets THEN "ip"
                  ELSE IF m = "*" THEN "any" ELSE "odd"]
MCPath == [m \in MCMasks |-> IF m \in DOMAIN Dns THEN Dns[m] ELSE <<"num">>]
MCOdd == {"*x*"} \X {"x.foo.com", "xppp.foo.com", "y.x.foo.com", "fox.com", "y.fox.com"}

Person(u, h, i) == [user |-> u, host |-> h, ip |-> i]
People == ("a" :> Person("u", "x.foo.com", 5)) @@ ("b" :> Person("v", "xppp.foo.com", 4))
          @@ ("c" :> Person("u", "foo.com", 1)) @@ ("d" :> Person("v", "y.x.foo.com", 6))
          @@ ("e" :> Person("u", "fox.com", 7)) @@ ("f" :> Person("u", "y.joe.com", 2))
          @@ ("g" :> Person("v", "y.fox.com", 3)) 

Line(t, u, h) == [type |-> t, user |-> u, host |-> h, e |-> FALSE]
Grace(t, u, h) == [type |-> t, user |-> u, host |-> h, e |-> TRUE]

Coin(lines) == {Masked(Net[l.host]) : l \in {x \in lines : IsAddress(x.host)}}

World(conf, k, d, asks, nets, folk, may, left) ==
  [conf |-> conf, kfile |-> k, dfile |-> d, asks |-> asks, nets |-> nets, folk |-> folk,
   may |-> may, left |-> left,
   coins |-> Coin(Range(conf) \union Range(k) \union Range(d) \union asks)
             \union {Masked(Net[h]) : h \in nets}]

(* The sequences without repetition of at most n elements of U.               *)
Upto(U, n) == UNION {{s \in [1..k -> U] : \A i, j \in 1..k : i # j => s[i] # s[j]} : k \in 0..n}

(* Every order of up to three K lines behind one or two I lines.              *)
HostMasks == {"foo.com", "*.foo.com", "x.foo.com", "*ppp.foo.com", "y.x.foo.com", "*x*", "5", "4/6",
              "y.fox.com", "joe.com"}
IFiles == {<<Line("I", "*", "*")>>, <<Line("I", "*", "*.foo.com"), Line("I", "*", "5")>>,
           <<Line("I", "u", "x.foo.com"), Grace("I", "v", "*")>>,
           <<Line("I", "*", "*x*"), Grace("I", "u", "*ppp.foo.com")>>}
Tries == {World(i \o s, <<>>, <<>>, {}, {}, {}, {}, 0) :
            i \in IFiles, s \in Upto({Line("K", "*", h) : h \in HostMasks}, 3)}

(* Every order of up to four D lines and exceptions.                          *)
DLines == {Line("D", "*", h) : h \in {"5", "4/6", "7", "1", "4/4"}}
          \union {Grace("D", "*", h) : h \in {"5", "4/6", "6/6"}}
Trees == {World(<<>>, <<>>, s, {}, {}, {}, {}, 0) : s \in Upto(DLines, 4)}

(* Not part of All: five D lines, one of which delete_ip_subtree loses in     *)
(* some orders, so that DlinesRight fails.  A D line that is covered has two   *)
(* neighbours on one side and one on the other, each in an entry of its own.  *)
Neighbours == {World(<<>>, <<>>, s, {}, {}, {}, {}, 0) :
                 s \in {t \in Upto({Line("D", "*", h) : h \in {"5", "1", "3", "7", "4/6"}}, 5) : Len(t) = 5}}

(* The commands. *)
Open == <<Line("I", "*", "*.foo.com"), Grace("I", "v", "*ppp.foo.com")>>
Asks == {Line("K", "*", "x.foo.com"), Line("K", "u", "5/6")}
Commands == {World(Open, <<>>, <<>>, Asks, {"4/6"}, {"a", "b"},
               {"rehash", "rehash dlines", "rehash tklines", "kline", "kline nick", "tkline", "unkline",
                "dline", "undline", "lock"}, 3)}

All == Tries \union Trees \union Commands
=============================================================================
