------------------------------ MODULE MCLinks ------------------------------
(* Three servers, and what may happen to them. *)
EXTENDS Links

CONSTANTS a, b, c

Fine == [cn |-> TRUE, sends |-> "pw", wants |-> "pw", hub |-> 0, leaf |-> -1]
Except(s, t, line) == [p \in Server \X Server |-> IF p = <<s, t>> THEN line ELSE Fine]

Dials(f) == [p \in Server \X Server |-> IF p \in DOMAIN f THEN f[p] ELSE 0]

Know(name, via, up, hop) == [name |-> name, via |-> via, up |-> up, hop |-> hop]

Plain == [known |-> [s \in Server |-> <<>>],
          dials |-> Dials(<<>>), squits |-> {}, cuts |-> 0, off |-> {}, hubs |-> Server,
          qs |-> Server, skewed |-> {}, conf |-> [p \in Server \X Server |-> Fine]]

\* a and b are linked; a, b and c in a row.
Pair  == [Plain EXCEPT !.known = (a :> <<Know(b, 1, a, 1)>> @@ b :> <<Know(a, 1, b, 1)>> @@ c :> <<>>)]
Chain == [Plain EXCEPT
  !.known = (a :> <<Know(b, 1, a, 1), Know(c, 1, b, 2)>>
             @@ b :> <<Know(a, 1, b, 1), Know(c, 2, b, 1)>>
             @@ c :> <<Know(b, 2, c, 1), Know(a, 2, b, 2)>>)]

\* Three servers close a ring, two dial each other.
Ring   == [Plain EXCEPT !.dials = Dials(<<a, b>> :> 1 @@ <<b, c>> :> 1 @@ <<c, a>> :> 1)]
Mutual == [Pair EXCEPT !.dials = Dials(<<b, c>> :> 1 @@ <<c, b>> :> 1)]

\* A link of the row is lost while others are made; operators give SQUITs.
Lost  == [Chain EXCEPT !.cuts = 2, !.dials = Dials(<<b, c>> :> 1 @@ <<a, c>> :> 1)]
Squit == [Chain EXCEPT !.squits = {<<a, c>>, <<b, c>>, <<c, a>>}, !.cuts = 1, !.qs = {b}]
Again == [Chain EXCEPT !.squits = {<<a, c>>, <<c, a>>}, !.qs = {},
                       !.dials = Dials(<<c, a>> :> 1 @@ <<b, c>> :> 1)]

\* A SQUIT, and a new link to the same server, with QS.
Ghost == [Chain EXCEPT !.squits = {<<a, c>>}, !.cuts = 1, !.dials = Dials(<<b, c>> :> 1)]
GhostScene == {Ghost}

\* Links that the configuration refuses, before or after they stand.
Join(conf) == [Pair EXCEPT !.conf = conf, !.dials = Dials(<<c, b>> :> 1)]
Refused ==
  {Join(Except(b, c, [Fine EXCEPT !.cn = FALSE])),
   Join(Except(b, c, [Fine EXCEPT !.wants = "other"])),
   Join(Except(c, b, [Fine EXCEPT !.wants = "other"])),
   Join(Except(b, c, [Fine EXCEPT !.sends = "", !.wants = ""])),
   Join(Except(c, b, [Fine EXCEPT !.hub = -1])),
   Join(Except(a, b, [Fine EXCEPT !.hub = 1])),
   Join(Except(a, b, [Fine EXCEPT !.leaf = 2])),
   Join(Except(a, b, [Fine EXCEPT !.leaf = 0])),
   [Join(Plain.conf) EXCEPT !.hubs = {a, c}],
   [Join(Plain.conf) EXCEPT !.skewed = {{b, c}}],
   [Join(Plain.conf) EXCEPT !.off = {a, b}]}

TheScenes == {Ring, Mutual, Lost, Squit, Again, [Ghost EXCEPT !.qs = {}]} \cup Refused
=============================================================================
