--------------------------------- MODULE MCIO ---------------------------------
(* Small scenes for IO: what is connected at the beginning, and how often the *)
(* peers and the other parts of the server may act.                           *)
EXTENDS IO

MCPing == [k \in Kinds |-> 2]

Still == [kinds |-> <<>>, bytes |-> {}, left |-> 0, news |-> 0, chans |-> 0, fresh |-> {}, calls |-> 0,
            ages |-> FALSE, goes |-> FALSE, table |-> [b \in 1..Buckets |-> <<>>]]

(* A LIST of three channels that does not fit, with messages from elsewhere.  *)
Listing == [Still EXCEPT !.kinds = 1 :> "person", !.bytes = {"list", Eol}, !.left = 4, !.news = 1,
              !.chans = 1, !.fresh = {"#d"}, !.table = <<<<"#a", "#b">>, <<"#c">>>>]

(* A zipped link that gets messages during its burst and after it.            *)
Zipped == [Still EXCEPT !.kinds = 1 :> "server", !.bytes = {"say", "tell", Eol}, !.left = 2, !.news = 4, !.goes = TRUE]

(* Two clients who talk to, kill and leave one another.                       *)
Talking == [Still EXCEPT !.kinds = 1 :> "person" @@ 2 :> "person", !.bytes = {"tell", "kill", Eol}, !.left = 4]

(* Lines that come in pieces, too long or too many.                           *)
Lines == [Still EXCEPT !.kinds = 1 :> "person", !.bytes = {"say", "quit", Eol}, !.left = 6, !.goes = TRUE]
Early == [Still EXCEPT !.kinds = 1 :> "unknown", !.bytes = {"reg", Eol}, !.left = 6]

(* New connections arrive, and somebody falls silent.                         *)
Arriving == [Still EXCEPT !.kinds = 1 :> "person", !.bytes = {"reg", "pong", Eol}, !.left = 2, !.calls = 1, !.ages = TRUE]

All == {Listing, Zipped, Talking, Lines, Early, Arriving}
=============================================================================
