------------------------------ MODULE Install ------------------------------
(***************************************************************************)
(* From a source to a bound brick: `veridian brick add / install / remove` *)
(* (plugin_runtime/acquire.py, environments.py), the reference a stack     *)
(* makes to a brick (versions.py, loader.py, kernel/config.py) and the     *)
(* refusals of the kernel when it spawns and binds it (manifest.py,        *)
(* registry.py).                                                           *)
(*                                                                         *)
(* A slot <<root, name, version>> is a brick directory; a name is a        *)
(* sequence of path segments.  The command line and the kernel are two     *)
(* processes that share nothing but the disk, and the first may be         *)
(* interrupted between any two of its steps.                               *)
(***************************************************************************)
EXTENDS Naturals, Sequences, FiniteSets

CONSTANTS
    Roots,      \* the search roots, first match wins
    Slots,      \* the brick directories that may exist
    Packages,   \* bricks as published; of each:
    Name, Version, Table, Needs, Implements,
    Shipped,    \* Shipped[s]: the package in each slot that exists at first
    Sources,    \* what `brick add` is pointed at
    Package,    \* Package[src]: what is published there
    Layout,     \* Layout[src]: where its manifest is, "none" when not to be had
    Tables,     \* [dependencies] tables; two of them differ in fingerprint
    Runtime,    \* Runtime[t]: "python" or "node"
    Releases,   \* versions of Veridian that may be installed
    Bindings,   \* the bindings of stack files: contract, name, pin
    Edited,     \* bound: the directories whose manifest is edited by hand
    NoTable, NoPin, Absent

ASSUME InstallAssumption ==
    /\ Runtime \in [Tables -> {"python", "node"}] /\ NoTable \notin Tables
    /\ Shipped \in [DOMAIN Shipped -> Packages] /\ DOMAIN Shipped \subseteq Slots
    /\ Package \in [Sources -> Packages]
    /\ Table \in [Packages -> Tables \cup {NoTable}]
    /\ \A b \in Packages : <<"user", Name[b], Version[b]>> \in Slots \/ b \notin {Package[src] : src \in Sources}
    /\ Edited \subseteq Slots
    /\ Releases \subseteq Seq(Nat) \ {<<>>}
    /\ \A b \in Packages : \A c \in Needs[b] : c.target \in Seq(Nat)

VARIABLES
    disk,       \* the directories, with what .veridian/ in them says
    op,         \* the command under way
    kernel,     \* the brick the kernel is loading
    running,    \* the installed version of Veridian
    resolved    \* history: the tables resolved in a directory since its copy
vars == <<disk, op, kernel, running, resolved>>

(* Versions ***************************************************************)

Padded(v, width) == [i \in 1 .. width |-> IF i <= Len(v) THEN v[i] ELSE 0]

\* Missing components count as zero: 1.0 and 1.0.0 are neither older nor newer.
Older(a, b) ==
    LET w == IF Len(a) > Len(b) THEN Len(a) ELSE Len(b)
    IN \E i \in 1 .. w : /\ Padded(a, w)[i] < Padded(b, w)[i]
                         /\ \A j \in 1 .. i - 1 : Padded(a, w)[j] = Padded(b, w)[j]

Highest(vs) == CHOOSE v \in vs : \A u \in vs : ~ Older(v, u)

SameRelease(a, b, n) == LET w == Len(a) + Len(b) IN
    \A i \in 1 .. n : Padded(a, w)[i] = Padded(b, w)[i]

\* Plausible bug: the last component must agree too.
SatisfiesClause_Exact(v, c) ==
    CASE c.op = ">=" -> ~ Older(v, c.target)
      [] c.op = "<"  -> Older(v, c.target)
      [] c.op = "==" -> ~ Older(v, c.target) /\ ~ Older(c.target, v)
      [] c.op = "~=" -> ~ Older(v, c.target) /\ SameRelease(v, c.target, Len(c.target))

\* The other operators are the negations of these; ~= with one component is
\* refused, as is a clause that does not parse.
SatisfiesClause(v, c) ==
    CASE c.op = ">=" -> ~ Older(v, c.target)
      [] c.op = "<"  -> Older(v, c.target)
      [] c.op = "==" -> ~ Older(v, c.target) /\ ~ Older(c.target, v)
      [] c.op = "~=" -> /\ Len(c.target) >= 2 /\ ~ Older(v, c.target)
                        /\ SameRelease(v, c.target, Len(c.target) - 1)

Satisfies(v, clauses) == \A c \in clauses : SatisfiesClause(v, c)

(* Directories ************************************************************)

Runtimes == {"python", "node"}

\* Plausible bug: a checkout is copied with its .veridian and its venv.
Copied_WithVenv(body, whole, readable) ==
    [body |-> body, table |-> Table[body], whole |-> whole, readable |-> readable, recorded |-> FALSE,
     stamp |-> Table[body], pkgs |-> [r \in Runtimes |-> Table[body]]]

\* A fresh copy: _COPY_IGNORE leaves the .veridian of the source behind.
Copied(body, whole, readable) ==
    [body |-> body, table |-> Table[body], whole |-> whole, readable |-> readable, recorded |-> FALSE,
     stamp |-> NoTable, pkgs |-> [r \in Runtimes |-> "none"]]

\* Absent stands for no directory.
Dir == [body : Packages, table : Tables \cup {NoTable}, whole : BOOLEAN, readable : BOOLEAN,
        recorded : BOOLEAN, stamp : Tables \cup {NoTable},
        pkgs : [Runtimes -> {"none", "bare"} \cup Tables]]

ASSUME AbsentAssumption == Absent \notin Dir

Exists(s) == disk[s] # Absent
Readable(s) == Exists(s) /\ disk[s].readable
Slot(root, name, v) == <<root, name, v>>
Prefix(a, b) == Len(a) <= Len(b) /\ SubSeq(b, 1, Len(a)) = a

EnvironmentState(s, table) ==
    IF table = NoTable THEN "n/a"
    ELSE IF ~ Exists(s) \/ disk[s].stamp = NoTable THEN "missing"
    ELSE IF \/ disk[s].stamp # table
            \/ Runtime[table] = "python" /\ disk[s].pkgs["python"] = "none" THEN "stale"
    ELSE "ok"

\* resolve_brick_ref(): the first root with any version of the name decides.
InstalledVersions(root, name) ==
    {s[3] : s \in {x \in Slots : x[1] = root /\ x[2] = name /\ Readable(x)}}

ResolveRef(name, pin) ==
    LET at == {k \in 1 .. Len(Roots) : InstalledVersions(Roots[k], name) # {}}
    IN IF at = {} THEN Absent
       ELSE LET first == Roots[CHOOSE k \in at : \A j \in at : k <= j]
                vs == InstalledVersions(first, name)
            IN IF pin = NoPin THEN Slot(first, name, Highest(vs))
               ELSE IF pin \in vs THEN Slot(first, name, pin) ELSE Absent

(* brick add **************************************************************)

Idle == [at |-> "idle"]
Dest(body) == Slot("user", Name[body], Version[body])

\* The source is reached, and holds one manifest, at its root or one level
\* below it; every refusal before this leaves the disk as it is.
Fetched(src) == Layout[src] \in {"root", "nested"}

\* Plausible bug: the provenance is noted before the copy, with the directory.
AddBrick_RecordsFirst(src, force, yes, env) ==
    /\ op = Idle /\ Fetched(src)
    /\ LET body == Package[src] IN
        /\ Exists(Dest(body)) => force
        /\ disk' = [disk EXCEPT ![Dest(body)] = [Copied(body, FALSE, FALSE) EXCEPT !.recorded = TRUE]]
        /\ op' = [at |-> IF Table[body] # NoTable /\ env /\ ~ yes THEN "asked" ELSE "copy",
                  slot |-> Dest(body), body |-> body, env |-> env /\ Table[body] # NoTable]
    /\ UNCHANGED <<kernel, running, resolved>>

AddBrick(src, force, yes, env) ==
    /\ op = Idle /\ Fetched(src)
    /\ LET body == Package[src] IN
        /\ Exists(Dest(body)) => force
        /\ disk' = [disk EXCEPT ![Dest(body)] = Absent]
        /\ op' = [at |-> IF Table[body] # NoTable /\ env /\ ~ yes THEN "asked" ELSE "copy",
                  slot |-> Dest(body), body |-> body, env |-> env /\ Table[body] # NoTable]
    /\ UNCHANGED <<kernel, running, resolved>>

\* The old copy is gone by now, whatever the answer is.
Consent(yes) ==
    /\ op.at = "asked"
    /\ op' = IF yes THEN [op EXCEPT !.at = "copy"] ELSE Idle
    /\ UNCHANGED <<disk, kernel, running, resolved>>

CopyTree ==
    /\ op.at = "copy"
    /\ disk' = [disk EXCEPT ![op.slot] = Copied(op.body, TRUE, TRUE)]
    /\ resolved' = [resolved EXCEPT ![op.slot] = {}]
    /\ op' = [op EXCEPT !.at = "record"]
    /\ UNCHANGED <<kernel, running>>

\* copytree() raises or is killed: what it has copied stays.
CopyFails(readable) ==
    /\ op.at = "copy"
    /\ disk' = [disk EXCEPT ![op.slot] = Copied(op.body, FALSE, readable)]
    /\ resolved' = [resolved EXCEPT ![op.slot] = {}]
    /\ op' = Idle
    /\ UNCHANGED <<kernel, running>>

AfterRecord ==
    IF Table[op.body] # NoTable /\ op.env
    THEN [at |-> "resolve", slot |-> op.slot, table |-> Table[op.body], force |-> FALSE] ELSE Idle

WriteRecord ==
    /\ op.at = "record" /\ Exists(op.slot)
    /\ disk' = [disk EXCEPT ![op.slot].recorded = TRUE]
    /\ op' = AfterRecord
    /\ UNCHANGED <<kernel, running, resolved>>

(* brick install: resolve_environment() ***********************************)

\* Of a brick without dependencies nothing is installed.
BrickInstall(s, force) ==
    /\ op = Idle /\ Readable(s) /\ disk[s].table # NoTable
    /\ op' = [at |-> "resolve", slot |-> s, table |-> disk[s].table, force |-> force]
    /\ UNCHANGED <<disk, kernel, running, resolved>>

\* Reused, or built anew: the old venv goes first.
ResolveStarts ==
    /\ op.at = "resolve"
    /\ IF ~ op.force /\ EnvironmentState(op.slot, op.table) = "ok"
       THEN op' = Idle /\ UNCHANGED disk
       ELSE /\ op' = [at |-> IF Runtime[op.table] = "python" THEN "venv" ELSE "packages",
                      slot |-> op.slot, table |-> op.table]
            /\ IF Runtime[op.table] = "python"
               THEN disk' = [disk EXCEPT ![op.slot].pkgs["python"] = "none"]
               ELSE UNCHANGED disk
    /\ UNCHANGED <<kernel, running, resolved>>

UvVenv ==
    /\ op.at = "venv"
    /\ disk' = [disk EXCEPT ![op.slot].pkgs["python"] = "bare"]
    /\ op' = [op EXCEPT !.at = "packages"]
    /\ UNCHANGED <<kernel, running, resolved>>

\* `uv pip install` or `npm install`.
InstallPackages ==
    /\ op.at = "packages"
    /\ disk' = [disk EXCEPT ![op.slot].pkgs[Runtime[op.table]] = op.table]
    /\ op' = [op EXCEPT !.at = "stamp"]
    /\ UNCHANGED <<kernel, running, resolved>>

PackagesFail ==
    /\ op.at = "packages"
    /\ disk' = [disk EXCEPT ![op.slot].pkgs[Runtime[op.table]] = "bare"]
    /\ op' = Idle
    /\ UNCHANGED <<kernel, running, resolved>>

Stamp ==
    /\ op.at = "stamp"
    /\ disk' = [disk EXCEPT ![op.slot].stamp = op.table]
    /\ resolved' = [resolved EXCEPT ![op.slot] = @ \cup {op.table}]
    /\ op' = Idle
    /\ UNCHANGED <<kernel, running>>

\* The tool is missing or fails, the user presses Ctrl-C, the machine stops.
CommandFails ==
    /\ op.at \in {"asked", "copy", "record", "resolve", "venv", "packages", "stamp"}
    /\ op' = Idle
    /\ UNCHANGED <<disk, kernel, running, resolved>>

(* brick remove, and the hands of the user ********************************)

RemoveVersion(name, v) ==
    /\ op = Idle /\ Slot("user", name, v) \in Slots /\ Exists(Slot("user", name, v))
    /\ disk' = [disk EXCEPT ![Slot("user", name, v)] = Absent]
    /\ UNCHANGED <<op, kernel, running, resolved>>

\* The directory of the name goes, with every name that begins with it.
RemoveBrick(name) ==
    LET below == {s \in Slots : s[1] = "user" /\ Prefix(name, s[2]) /\ Exists(s)}
    IN /\ op = Idle /\ below # {}
       /\ disk' = [s \in Slots |-> IF s \in below THEN Absent ELSE disk[s]]
       /\ UNCHANGED <<op, kernel, running, resolved>>

EditManifest(s, table) ==
    /\ op = Idle /\ Readable(s) /\ disk[s].table # table
    /\ disk' = [disk EXCEPT ![s].table = table]
    /\ UNCHANGED <<op, kernel, running, resolved>>

Upgrade(v) ==
    /\ op = Idle /\ kernel.at = "none" /\ v # running
    /\ running' = v
    /\ UNCHANGED <<disk, op, kernel, resolved>>

(* The kernel: load_stack(), then spawn and bind **************************)

Nothing == [at |-> "none"]

Compatible(body) == Satisfies(running, Needs[body])

LoadStack(b) ==
    LET s == ResolveRef(b.name, b.pin)
    IN /\ kernel = Nothing /\ s \in Slots /\ Readable(s)
       /\ Compatible(disk[s].body) /\ b.contract \in Implements[disk[s].body]
       /\ kernel' = [at |-> "loaded", slot |-> s, table |-> disk[s].table,
                     body |-> disk[s].body]
       /\ UNCHANGED <<disk, op, running, resolved>>

\* resolved_command() raises unless the environment is resolved.
Spawn ==
    /\ kernel.at = "loaded" /\ EnvironmentState(kernel.slot, kernel.table) \in {"n/a", "ok"}
    /\ kernel' = [kernel EXCEPT !.at = "spawned"]
    /\ UNCHANGED <<disk, op, running, resolved>>

\* PluginRegistry.bind(): reported is what plugin.capabilities answers.
Bind(reported) ==
    /\ kernel.at = "spawned"
    /\ EnvironmentState(kernel.slot, kernel.table) \notin {"missing", "stale"}
    /\ Implements[kernel.body] \subseteq reported
    /\ kernel' = [kernel EXCEPT !.at = "bound"]
    /\ UNCHANGED <<disk, op, running, resolved>>

\* A refusal by one of these, or the end of the session.
KernelGivesUp ==
    /\ kernel # Nothing /\ kernel' = Nothing
    /\ UNCHANGED <<disk, op, running, resolved>>

(* The specification ******************************************************)

InstallInit ==
    /\ disk = [s \in Slots |-> IF s \in DOMAIN Shipped THEN Copied(Shipped[s], TRUE, TRUE) ELSE Absent]
    /\ op = Idle /\ kernel = Nothing /\ running \in Releases
    /\ resolved = [s \in Slots |-> {}]

Contracts == UNION {Implements[b] : b \in Packages}

CommandNext ==
    \/ \E src \in Sources, force, yes, env \in BOOLEAN : AddBrick(src, force, yes, env)
    \/ \E yes \in BOOLEAN : Consent(yes) \/ CopyFails(yes)
    \/ CopyTree \/ WriteRecord
    \/ \E s \in Slots, force \in BOOLEAN : BrickInstall(s, force)
    \/ ResolveStarts \/ UvVenv \/ InstallPackages \/ PackagesFail \/ Stamp \/ CommandFails
    \/ \E s \in Slots : RemoveVersion(s[2], s[3]) \/ RemoveBrick(s[2])
    \/ \E s \in Edited, t \in Tables : EditManifest(s, t)
    \/ \E v \in Releases : Upgrade(v)

LoadNext ==
    \/ \E b \in Bindings : LoadStack(b)
    \/ Spawn \/ KernelGivesUp
    \/ \E reported \in SUBSET Contracts : Bind(reported)

InstallNext == CommandNext \/ LoadNext

InstallSpec == InstallInit /\ [][InstallNext]_vars

(* Properties *************************************************************)

\* Every directory of the store is absent or a brick; a command at work in a
\* directory finds it there.
Command ==
    {Idle}
    \cup [at : {"asked", "copy", "record"}, slot : Slots, body : Packages, env : BOOLEAN]
    \cup [at : {"resolve"}, slot : Slots, table : Tables, force : BOOLEAN]
    \cup [at : {"venv", "packages", "stamp"}, slot : Slots, table : Tables]

InstallTypeOK ==
    /\ disk \in [Slots -> Dir \cup {Absent}]
    /\ resolved \in [Slots -> SUBSET Tables]
    /\ op \in Command
    /\ op.at \in {"record", "resolve", "venv", "packages", "stamp"} => Exists(op.slot)

\* A brick with dependencies is bound only if an install of the very table it
\* was loaded with has run to its end in that directory, since it was copied
\* there: whatever was edited, reinstalled or interrupted between the load of
\* the stack and the bind (registry.py:63, acquire.py:337).
BoundWasResolved ==
    [][(kernel.at = "spawned" /\ kernel'.at = "bound") =>
          kernel.table = NoTable \/ kernel.table \in resolved[kernel.slot]]_vars

\* A directory that carries an install record holds all of the brick, through
\* copies that fail and forced reinstalls over an older copy (acquire.py:317-349).
RecordedIsWhole == \A s \in Slots : Exists(s) /\ disk[s].recorded => disk[s].whole

\* A brick that asks for a compatible release (~= a.b.c) goes on loading when
\* Veridian is upgraded within the series a.b (versions.py:75-84).
CompatibleUpgradeLoads ==
    [][running' # running => \A b \in Packages : \A c \in Needs[b] :
        (/\ c.op = "~=" /\ Len(c.target) <= 3 /\ SatisfiesClause(running, c)
         /\ Older(running, running') /\ SameRelease(running, running', 2)) =>
            SatisfiesClause(running', c)]_vars
=============================================================================
