---------------------------- MODULE ZigVersions -----------------------------
(***************************************************************************)
(* scripts/zig.py: which version of Zig is in use, the one that README.md   *)
(* names, and which are downloaded.  A command goes through its files one   *)
(* call at a time and may be killed between any two; the directory of a Zig *)
(* counts as existing as soon as the zig binary is in it.                   *)
(***************************************************************************)
EXTENDS Naturals, Sequences, FiniteSetsExt, Functions

CONSTANTS
  Version,      \* tuples of three fields and a dev number or NULL, in digits
  Committed,    \* what README.md says in the repository
  Budgets,      \* bounds on what is done in a session
  NULL

VARIABLES
  readme,     \* the version in README.md, or NULL if the line is gone
  zigs,       \* the directories
  archives,   \* what was downloaded and not extracted
  master,     \* the latest version in index.json
  cmd,        \* the command that runs or ran last
  commands,   \* how many more may be run
  broken      \* the versions whose extraction did not finish

dirVars == <<zigs, archives, broken>>
zigVars == <<readme, dirVars, master, cmd, commands>>

-----------------------------------------------------------------------------
\* Fields are compared as the strings that the regular expression found.
FieldLess(a, b) ==
  \E k \in 1..Len(b) :
    /\ k <= Len(a) + 1 /\ \A i \in 1..(k - 1) : a[i] = b[i]
    /\ k = Len(a) + 1 \/ a[k] < b[k]

Differing(v, w) == {i \in 1..3 : v[i] # w[i]}

\* Mutant: a release counts as older than the builds before it.
ReleaseFirst(v, w) ==
  IF Differing(v, w) # {}
  THEN FieldLess(v[Min(Differing(v, w))], w[Min(Differing(v, w))])
  ELSE IF v[4] = NULL THEN w[4] # NULL
  ELSE w[4] # NULL /\ FieldLess(v[4], w[4])

\* Zig.__lt__(): a release comes after the builds of it.
Less(v, w) ==
  IF Differing(v, w) # {}
  THEN FieldLess(v[Min(Differing(v, w))], w[Min(Differing(v, w))])
  ELSE IF w[4] = NULL THEN v[4] # NULL
  ELSE v[4] # NULL /\ FieldLess(v[4], w[4])

\* Zig.exists(): there is a zig binary, whatever else was extracted.
Exists(v) == zigs[v] \in {"binary", "whole"}

\* get_downloaded(), in the order that list prints.
Downloaded ==
  LET there == {v \in Version : Exists(v)}
  IN CHOOSE list \in [1..Cardinality(there) -> there] :
       \A i, k \in DOMAIN list : i < k => Less(list[k], list[i])

-----------------------------------------------------------------------------
Prepared ==
  /\ readme = Committed
  /\ zigs \in [Version -> {"absent", "whole"}]
  /\ archives = [v \in Version |-> "absent"]
  /\ master \in Version
  /\ cmd = [name |-> "none", zig |-> NULL, step |-> "done"]
  /\ broken = {}

Init == Prepared /\ \E b \in Budgets : commands = b.commands

Running == cmd.step \notin {"done", "failed"}

Run(name, zig, step) ==
  /\ ~Running /\ commands > 0
  /\ commands' = commands - 1
  /\ cmd' = [name |-> name, zig |-> zig, step |-> step]

GoOn(step) == cmd' = [cmd EXCEPT !.step = step] /\ UNCHANGED commands

\* update: the version in README.md is needed to begin with, then index.json,
\* which may not be had.
\* After a download it goes on as if the latest had only not been in use.
Update ==
  /\ \/ Run("update", master, "failed")
     \/ /\ readme # NULL
        /\ Run("update", master,
               IF ~Exists(master) THEN "open" ELSE IF master = readme THEN "done" ELSE "use")
  /\ UNCHANGED <<readme, dirVars, master>>

\* download: the version in README.md.
Download ==
  /\ Run("download", readme,
         IF readme = NULL THEN "failed" ELSE IF Exists(readme) THEN "done" ELSE "open")
  /\ UNCHANGED <<readme, dirVars, master>>

UseVersion(v) ==
  /\ Run("use", v, "use")
  /\ UNCHANGED <<readme, dirVars, master>>

\* The archive cannot be had.
Fail ==
  /\ Running
  /\ cmd.step \in {"open", "fetch"}
  /\ GoOn("failed")
  /\ UNCHANGED <<readme, dirVars, master>>

\* download_file() makes the file before it asks for the contents.
OpenArchive ==
  /\ cmd.step = "open"
  /\ archives' = [archives EXCEPT ![cmd.zig] = "empty"]
  /\ GoOn("fetch")
  /\ UNCHANGED <<readme, zigs, broken, master>>

Fetch ==
  /\ cmd.step = "fetch"
  /\ archives' = [archives EXCEPT ![cmd.zig] = "whole"]
  /\ GoOn("extract")
  /\ UNCHANGED <<readme, zigs, broken, master>>

Extract ==
  /\ cmd.step = "extract"
  /\ zigs' = [zigs EXCEPT ![cmd.zig] = "whole"]
  /\ broken' = broken \ {cmd.zig}
  /\ GoOn("unlink")
  /\ UNCHANGED <<readme, archives, master>>

\* The disk is full, or the command is killed, before all files are there.
ExtractPart ==
  /\ cmd.step = "extract"
  /\ \E part \in {"nothing", "binary"} : zigs' = [zigs EXCEPT ![cmd.zig] = part]
  /\ broken' = broken \cup {cmd.zig}
  /\ GoOn("failed")
  /\ UNCHANGED <<readme, archives, master>>

\* Mutant: update() leaves the status at NeedToDownloadLatest.
ForgetsToUse(name) == "done"

AfterDownload(name) == IF name = "update" THEN "use" ELSE "done"

Unlink ==
  /\ cmd.step = "unlink"
  /\ archives' = [archives EXCEPT ![cmd.zig] = "absent"]
  /\ GoOn(AfterDownload(cmd.name))
  /\ UNCHANGED <<readme, zigs, broken, master>>

\* use(): set_current_version() replaces the line if there is one, and
\* write_text() empties the file before it writes it.
Use ==
  /\ cmd.step = "use"
  /\ IF ~Exists(cmd.zig) THEN GoOn("failed") /\ UNCHANGED readme
     ELSE IF readme = NULL THEN GoOn("done") /\ UNCHANGED readme
     ELSE GoOn("write") /\ readme' = NULL
  /\ UNCHANGED <<dirVars, master>>

WriteReadme ==
  /\ cmd.step = "write"
  /\ readme' = cmd.zig
  /\ GoOn("done")
  /\ UNCHANGED <<dirVars, master>>

Kill ==
  /\ Running
  /\ GoOn("failed")
  /\ UNCHANGED <<readme, dirVars, master>>

ZigNext ==
  \/ Update \/ Download \/ (\E v \in Version : UseVersion(v))
  \/ Fail \/ OpenArchive \/ Fetch \/ Extract \/ ExtractPart \/ Unlink \/ Use \/ WriteReadme \/ Kill

-----------------------------------------------------------------------------
\* Around it, between commands: a new build is published, a directory is
\* removed, README.md is checked out again.
Around ==
  /\ ~Running /\ commands > 0
  /\ cmd' = [name |-> "none", zig |-> NULL, step |-> "done"]
  /\ \/ master' \in Version \ {master} /\ UNCHANGED <<readme, dirVars>>
     \/ /\ \E v \in Version : /\ zigs[v] # "absent"
                              /\ zigs' = [zigs EXCEPT ![v] = "absent"]
                              /\ broken' = broken \ {v}
        /\ UNCHANGED <<readme, archives, master>>
     \/ readme' = Committed /\ UNCHANGED <<dirVars, master>>
  /\ UNCHANGED commands

Next == ZigNext \/ Around

Spec == Init /\ [][Next]_zigVars

-----------------------------------------------------------------------------
\* update ends, if it does not fail, with the latest version in use and wholly
\* there, from wherever the commands before it were stopped; a directory whose
\* extraction stopped after the binary is the one that it takes for whole.
UpdateEndsAtLatest ==
  cmd.name = "update" /\ cmd.step = "done" =>
    /\ readme = master
    /\ zigs[readme] = "whole" \/ readme \in broken

Number(field) ==
  LET read[i \in 0..Len(field)] == IF i = 0 THEN 0 ELSE 10 * read[i - 1] + field[i]
  IN read[Len(field)]

\* What a version is newer than: fields are numbers, and a build is older than
\* its release.
Newer(v, w) ==
  \/ \E i \in 1..3 : /\ Number(v[i]) > Number(w[i])
                    /\ \A k \in 1..(i - 1) : Number(v[k]) = Number(w[k])
  \/ /\ \A k \in 1..3 : Number(v[k]) = Number(w[k])
     /\ w[4] # NULL /\ (v[4] = NULL \/ Number(v[4]) > Number(w[4]))

SameWidths(v, w) ==
  \A i \in 1..4 : v[i] = NULL \/ w[i] = NULL \/ Len(v[i]) = Len(w[i])

\* list prints what is downloaded, each once, the newest first, among versions
\* whose fields have as many digits.
ListIsNewestFirst ==
  /\ Range(Downloaded) = {v \in Version : zigs[v] \notin {"absent", "nothing"}}
  /\ \A i, k \in DOMAIN Downloaded :
       i < k /\ SameWidths(Downloaded[i], Downloaded[k]) => Newer(Downloaded[i], Downloaded[k])
=============================================================================
