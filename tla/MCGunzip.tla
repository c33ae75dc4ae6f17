------------------------------- MODULE MCGunzip -------------------------------
(* Up to two of three archives (one flawed, one without the suffix), with  *)
(* an output that was there before, every combination of options, and two  *)
(* kills.                                                                  *)
EXTENDS Gunzip, TLC

Archive(p, sound) == [kind |-> "archive", of |-> p, sound |-> sound]
Other == [kind |-> "other", of |-> "none", sound |-> FALSE]

MCNames == {"a.gz", "b.gz", "c", "a", "b", "c.out"}
MCGzNames == {"a.gz", "b.gz"}
MCOutName == "a.gz" :> "a" @@ "b.gz" :> "b" @@ "c" :> "c.out"
             @@ "a" :> "c.out" @@ "b" :> "c.out" @@ "c.out" :> "c"

Files == {<< >>, <<"a.gz">>, <<"a.gz", "b.gz">>, <<"a.gz", "c">>, <<"b.gz", "b.gz">>}
MCCommands == [tool : {"gunzip"}, keep : BOOLEAN, toStdout : BOOLEAN,
               force : BOOLEAN, files : Files]
              \cup [tool : {"zcat"}, keep : {FALSE}, toStdout : {TRUE},
                    force : {TRUE}, files : Files]

World(a, b, c, old, in) ==
  [files |-> "a.gz" :> a @@ "b.gz" :> b @@ "c" :> c @@ "a" :> old
             @@ "b" :> Absent @@ "c.out" :> Absent, stdin |-> in]
MCWorlds == {World(a, b, c, old, in) :
               a \in {Archive("a.gz", TRUE), Archive("a.gz", FALSE)},
               b \in {Archive("b.gz", TRUE), Absent},
               c \in {Archive("c", TRUE), Other},
               old \in {Absent, Other},
               in \in {Archive("c", TRUE), Archive("c", FALSE), Other}}
===============================================================================
