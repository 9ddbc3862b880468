--------------------------------- MODULE EtcHosts --------------------------------
(***************************************************************************)
(* _modules/caasp_hosts.py, managed: the hosts file of a minion is written *)
(* anew from the entries it had before the first run, which are kept in    *)
(* /etc/caasp/hosts, and from the nodes the mine knows.  The run may be    *)
(* killed at any moment, and the two files are not written atomically.     *)
(***************************************************************************)
EXTENDS Naturals

CONSTANTS
  Node,
  Entry,       \* the entries of the user
  Absent,      \* a file that does not exist
  Empty,       \* a file without a line, or with blank ones only
  Large,       \* the files exceed the buffer of Python: a part may be written first
  MaxChanges,  \* bound: how often the user or the mine changes something
  MaxKills     \* bound: how often a run is killed

\* A hosts file: entries outside of the marked block of formulas/etc-hosts, and
\* those in it.  The entry of a node is the node.
Contents == [plain : SUBSET (Entry \cup Node), block : SUBSET Node]
File     == Contents \cup {Absent, Empty}

\* The queries: admin, masters, workers, other nodes.  0 is no answer.
Groups == 1..4

ASSUME FileAssumption == {Absent, Empty} \cap Contents = {} /\ Absent # Empty
ASSUME EntryAssumption == Entry \cap Node = {}
ASSUME BoundAssumption == Large \in BOOLEAN /\ MaxChanges \in Nat /\ MaxKills \in Nat

VARIABLES
  markers,   \* the arguments marker_start and marker_end are given
  hosts,     \* /etc/hosts
  saved,     \* /etc/caasp/hosts
  group,     \* of each node, the query of the mine that returns it
  pc,        \* what the run does next
  orig,      \* orig_etc_hosts_contents
  entries,   \* what goes into the file
  query,     \* the query that comes next
  ret,       \* what the last run has returned
  custom,    \* history: the entries that are the user's
  settled,   \* history: a run has ended and nothing has changed since it began
  fresh,     \* history: nothing has changed since the run began
  changes, kills

files   == <<markers, hosts, saved>>
run     == <<pc, orig, entries, query, ret>>
history == <<custom, settled, fresh, changes, kills>>
vars    == <<files, group, run, history>>

-------------------------------------------------------------------------------
(* Reading a file *)

\* _load_hosts skips the block when it is told the markers.
Loaded(file) == file.plain \cup (IF markers THEN {} ELSE file.block)

\* _load_lines raises an IndexError for a file without a line.
Readable(file) == file \in Contents

\* The entries in a file.
In(file) == IF Readable(file) THEN Loaded(file) ELSE {}

Init ==
  /\ markers \in BOOLEAN
  /\ hosts \in [plain : SUBSET Entry, block : SUBSET Node] \cup {Absent} /\ saved = Absent
  /\ group \in [Node -> 0..4]
  /\ pc = "idle" /\ orig = Empty /\ entries = {} /\ query = 0 /\ ret = "none"
  /\ custom = In(hosts)
  /\ settled = FALSE /\ fresh = FALSE
  /\ changes = 0 /\ kills = 0

-------------------------------------------------------------------------------
(* The run *)

\* Where there is no file, there are no lines.
ReadHosts ==
  /\ pc = "idle" /\ (Readable(hosts) \/ hosts = Absent)
  /\ orig' = IF hosts = Absent THEN Empty ELSE hosts
  /\ pc' = "save" /\ fresh' = TRUE
  /\ UNCHANGED <<files, group, entries, query, ret, custom, settled, changes, kills>>

\* Mutant of Save: in every run, not only in the first one.
SaveAgain ==
  /\ pc = "save"
  /\ saved' = Empty /\ pc' = "save-write"
  /\ UNCHANGED <<markers, hosts, group, orig, entries, query, ret, history>>

\* "copy the /etc/hosts to caasp_hosts_file the first time we run this": open
\* truncates, the lines get there later.
Save ==
  /\ pc = "save"
  /\ IF saved = Absent THEN saved' = Empty /\ pc' = "save-write"
     ELSE pc' = "load" /\ UNCHANGED saved
  /\ UNCHANGED <<markers, hosts, group, orig, entries, query, ret, history>>

\* _write_lines ends the file with a blank line: of no lines it makes a file that
\* no run can load.
SaveWrite ==
  /\ pc = "save-write"
  /\ saved' = orig /\ pc' = "save-clean"
  /\ UNCHANGED <<markers, hosts, group, orig, entries, query, ret, history>>

\* file.blockreplace; without markers, or a block, it raises, which is logged.
SaveClean ==
  /\ pc = "save-clean"
  /\ saved' = IF markers /\ Readable(saved) THEN [saved EXCEPT !.block = {}] ELSE saved
  /\ pc' = "load"
  /\ UNCHANGED <<markers, hosts, group, orig, entries, query, ret, history>>

\* Mutant of LoadSaved: the entries of the file that is replaced.
LoadHosts ==
  /\ pc = "load" /\ Readable(saved)
  /\ entries' = Loaded(orig)
  /\ query' = 1 /\ pc' = "query"
  /\ UNCHANGED <<files, group, orig, ret, history>>

LoadSaved ==
  /\ pc = "load" /\ Readable(saved)
  /\ entries' = Loaded(saved)
  /\ query' = 1 /\ pc' = "query"
  /\ UNCHANGED <<files, group, orig, ret, history>>

\* An IndexError ends the run.
FailToLoad ==
  /\ \/ pc = "idle" /\ hosts = Empty
     \/ pc = "load" /\ saved = Empty
  /\ pc' = "idle" /\ ret' = "error"
  /\ UNCHANGED <<files, group, orig, entries, query, history>>

\* Mutant of QueryMine: one query too many.
QueryMineOnceMore ==
  /\ pc = "query"
  /\ entries' = entries \cup {n \in Node : group[n] = query}
  /\ query' = IF query > 4 THEN 0 ELSE query + 1
  /\ pc' = IF query > 4 THEN "truncate" ELSE "query"
  /\ UNCHANGED <<files, group, orig, ret, history>>

QueryMine ==
  /\ pc = "query"
  /\ entries' = entries \cup {n \in Node : group[n] = query}
  /\ query' = IF query = 4 THEN 0 ELSE query + 1
  /\ pc' = IF query = 4 THEN "truncate" ELSE "query"
  /\ UNCHANGED <<files, group, orig, ret, history>>

Truncate ==
  /\ pc = "truncate"
  /\ hosts' = Empty /\ pc' = "write"
  /\ UNCHANGED <<markers, saved, group, orig, entries, query, ret, history>>

New == [plain |-> entries, block |-> {}]

\* Mutant of Write: the new contents are compared with those in /etc/caasp/hosts.
WriteComparingSaved ==
  /\ pc = "write"
  /\ hosts' = New /\ pc' = "idle"
  /\ ret' = IF New = saved THEN "unchanged" ELSE "changed"
  /\ settled' = fresh
  /\ UNCHANGED <<markers, saved, group, orig, entries, query, custom, fresh, changes, kills>>

Write ==
  /\ pc = "write"
  /\ hosts' = New /\ pc' = "idle"
  /\ ret' = IF New = orig THEN "unchanged" ELSE "changed"
  /\ settled' = fresh
  /\ UNCHANGED <<markers, saved, group, orig, entries, query, custom, fresh, changes, kills>>

-------------------------------------------------------------------------------
(* What happens meanwhile *)

\* The file that is being written when the run is killed: a part of large files
\* may have got there.
Torn(whole) ==
  {Empty} \cup (IF Large /\ Readable(whole)
                THEN {[plain |-> s, block |-> {}] : s \in SUBSET whole.plain} ELSE {})

Kill ==
  /\ pc # "idle" /\ kills < MaxKills
  /\ kills' = kills + 1
  /\ pc' = "idle" /\ ret' = "error" /\ settled' = FALSE
  /\ IF pc = "save-write" THEN saved' \in Torn(orig) ELSE UNCHANGED saved
  /\ IF pc = "write" THEN hosts' \in Torn(New) ELSE UNCHANGED hosts
  /\ UNCHANGED <<markers, group, orig, entries, query, custom, fresh, changes>>

Changed ==
  /\ changes < MaxChanges
  /\ changes' = changes + 1 /\ settled' = FALSE /\ fresh' = FALSE

\* "Please add any custom entries in {file}"
AddCustom ==
  /\ Changed
  /\ Readable(saved) /\ pc # "save-clean"
  /\ \E e \in Entry : /\ saved' = [saved EXCEPT !.plain = @ \cup {e}]
                      /\ custom' = custom \cup {e}
  /\ UNCHANGED <<markers, hosts, group, run, kills>>

\* A node gets or loses a role, or its data in the mine.
ChangeGroup ==
  /\ Changed
  /\ \E n \in Node, g \in 0..4 : group' = [group EXCEPT ![n] = g]
  /\ UNCHANGED <<files, run, custom, kills>>

Next ==
  \/ ReadHosts \/ Save \/ SaveWrite \/ SaveClean \/ LoadSaved \/ FailToLoad
  \/ QueryMine \/ Truncate \/ Write
  \/ Kill \/ AddCustom \/ ChangeGroup

Spec == Init /\ [][Next]_vars

-------------------------------------------------------------------------------
(* Properties *)

TypeOK ==
  /\ markers \in BOOLEAN /\ hosts \in File /\ saved \in File
  /\ group \in [Node -> 0..4]
  /\ pc \in {"idle", "save", "save-write", "save-clean", "load", "query", "truncate", "write"}
  /\ orig \in File /\ entries \subseteq Entry \cup Node /\ query \in 0..4
  /\ ret \in {"none", "changed", "unchanged", "error"}
  /\ custom \subseteq Entry \cup Node
  /\ settled \in BOOLEAN /\ fresh \in BOOLEAN
  /\ changes \in 0..MaxChanges /\ kills \in 0..MaxKills

\* At every moment, however often runs have been killed, the entries of the user
\* are in one of the two files.
CustomSurvives == custom \subseteq In(saved) \cup In(hosts)

\* When a run has ended and nothing has changed since it began, the file holds
\* the user's entries and the nodes that the mine returns, and no others: nodes
\* that are gone leave nothing behind.
HostsExact ==
  settled /\ pc = "idle" =>
    hosts.plain = custom \cup {n \in Node : group[n] \in Groups}

\* A further run changes nothing and reports no changes.
Idempotent ==
  [][settled /\ pc = "write" /\ pc' = "idle" /\ ret' # "error"
       => hosts' = orig /\ ret' = "unchanged"]_vars
===============================================================================
