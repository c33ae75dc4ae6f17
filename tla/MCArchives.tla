------------------------------- MODULE MCArchives -------------------------------
(***************************************************************************)
(* gunzip and zcat (module MCGunzip), and tar: a behaviour is one command   *)
(* of one of them (model says which), and the variables of the other rest. *)
(*                                                                         *)
(* tar archives a directory with a file in it, a file and a link; files    *)
(* that are empty, of one block (of zeros), or of one and a half; blocks   *)
(* of two bytes, one file changed.  The tree extracted into is empty, has  *)
(* an older file, links for a file and a directory, or a directory for a   *)
(* file and a file for a directory.                                        *)
(***************************************************************************)
EXTENDS MCGunzip, Tar

VARIABLE model

gunzipVars == <<cmd, pc, f, nfiles, data, fs, stdin, stdout, code, kills, fault, stuck, initial>>

File(bytes) == [kind |-> "file", data |-> bytes]
Link == [kind |-> "link", data |-> <<1>>]

MCSources == {"d" :> Directory @@ "d/f" :> File(n[1]) @@ "g" :> n[2] @@ "l" :> Link :
                n \in {<< << >>, File(<<1, 0, 1>>)>>, << << >>, File(<<0, 0>>)>>,
                      <<<<1, 0, 1>>, File(<<0, 0>>)>>, <<<<1, 0, 1>>, Nothing>>}}
Empty == [p \in {"d", "d/f", "g", "l"} |-> Nothing]
MCTargets == {Empty, [Empty EXCEPT !["g"] = File(<<1, 1, 1>>)],
              [Empty EXCEPT !["g"] = Directory, !["d"] = File(<<1>>)],
              [Empty EXCEPT !["g"] = Link, !["d"] = Link]}
MCPaths == DOMAIN Empty
MCAbove == [p \in MCPaths |-> IF p = "d/f" THEN {"d"} ELSE {}]
MCArguments == {<<"d", "g">>, <<"g", "d/f">>, <<"l", "g", "g">>}
MCNewData == {<<1>>, <<1, 1, 1, 1>>}
Bits == {0, 1}

TarRests ==
  /\ doing = "walk" /\ src = Empty /\ todo = << >> /\ path = "nowhere" /\ left = 0 /\ offset = 0
  /\ archive = << >> /\ partial = FALSE /\ op = "list" /\ dir = "here" /\ at = 0 /\ zeros = 0
  /\ dst = << >> /\ listed = << >> /\ ret = 0 /\ changed = {}
  /\ short = FALSE /\ failed = FALSE /\ cut = FALSE /\ astray = {}
GunzipRests ==
  /\ cmd = [tool |-> "gunzip", keep |-> FALSE, toStdout |-> FALSE, force |-> FALSE, files |-> << >>]
  /\ pc = "exited" /\ f = 1 /\ nfiles = 0 /\ data = Absent /\ fs = [p \in Names |-> Absent]
  /\ stdin = Absent /\ stdout = << >> /\ code = 1 /\ kills = 0 /\ fault = FALSE
  /\ stuck = {} /\ initial = fs

ArchivesInit == \/ model = "gunzip" /\ Init /\ TarRests
                \/ model = "tar" /\ TarInit /\ GunzipRests
ArchivesNext == \/ model = "gunzip" /\ Next /\ UNCHANGED <<model, tarVars>>
                \/ model = "tar" /\ TarNext /\ UNCHANGED <<model, gunzipVars>>
ArchivesSpec == ArchivesInit /\ [][ArchivesNext]_<<model, tarVars, gunzipVars>>
===============================================================================
