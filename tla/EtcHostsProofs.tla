----------------------------- MODULE EtcHostsProofs -----------------------------
(***************************************************************************)
(* Theorems about EtcHosts: for every set of nodes and entries, and however*)
(* often the mine, the user and kills come in between, the entries of the  *)
(* user survive and the hosts file is exact, as long as a file is written  *)
(* as a whole or not at all.                                               *)
(***************************************************************************)
EXTENDS EtcHosts, TLAPS

USE FileAssumption, EntryAssumption, BoundAssumption
  DEF FileAssumption, EntryAssumption, BoundAssumption

-------------------------------------------------------------------------------
(* Types *)

TypeInv ==
  /\ TypeOK
  /\ pc \in {"save", "save-write"} => orig \in Contents \cup {Empty}
  /\ pc = "save-clean" => saved \in Contents \cup {Empty}
  /\ pc = "query" => query \in 1..4

LEMMA Parts ==
  ASSUME NEW f \in Contents
  PROVE  f = [plain |-> f.plain, block |-> f.block]
         /\ f.plain \subseteq Entry \cup Node /\ f.block \subseteq Node
BY DEF Contents

LEMMA Whole ==
  ASSUME NEW S, S \subseteq Entry \cup Node, NEW B, B \subseteq Node
  PROVE  [plain |-> S, block |-> B] \in Contents
BY DEF Contents

LEMMA TypeInit == Init => TypeInv
<1> SUFFICES ASSUME Init PROVE TypeInv
  OBVIOUS
<1>1. hosts \in Contents \cup {Absent}
  BY DEF Init, Contents
<1>2. custom \subseteq Entry \cup Node
  BY <1>1, Parts DEF Init, In, Readable, Loaded
<1>3. markers \in BOOLEAN /\ settled \in BOOLEAN /\ fresh \in BOOLEAN
  BY DEF Init
<1>4. /\ group \in [Node -> 0..4] /\ entries \subseteq Entry \cup Node /\ query \in 0..4
      /\ changes \in 0..MaxChanges /\ kills \in 0..MaxKills
  BY DEF Init
<1> QED BY <1>1, <1>2, <1>3, <1>4 DEF Init, TypeInv, TypeOK, File

LEMMA TypeStep == TypeInv /\ [Next]_vars => TypeInv'
<1> SUFFICES ASSUME TypeInv, [Next]_vars PROVE TypeInv'
  OBVIOUS
<1> USE DEF TypeInv, TypeOK, File, files, run, history
<1>1. CASE ReadHosts
  BY <1>1 DEF ReadHosts, Readable
<1>2. CASE Save
  BY <1>2 DEF Save
<1>3. CASE SaveWrite
  BY <1>3 DEF SaveWrite
<1>4. CASE SaveClean
  <2>1. saved \in Contents => [saved EXCEPT !.block = {}] = [plain |-> saved.plain, block |-> {}]
    BY Parts DEF Contents
  <2>2. saved' \in Contents \cup {Empty}
    BY <1>4, <2>1, Parts, Whole DEF SaveClean, Readable
  <2> QED BY <1>4, <2>2 DEF SaveClean
<1>5. CASE LoadSaved
  BY <1>5 DEF LoadSaved, Readable, Loaded, Contents
<1>6. CASE FailToLoad
  BY <1>6 DEF FailToLoad
<1>7. CASE QueryMine
  BY <1>7 DEF QueryMine
<1>8. CASE Truncate
  BY <1>8 DEF Truncate
<1>9. CASE Write
  <2>1. New \in Contents
    BY Whole DEF New
  <2> QED BY <1>9, <2>1 DEF Write
<1>10. CASE Kill
  <2>1. New \in Contents
    BY Whole DEF New
  <2>2. ASSUME NEW f \in Contents \cup {Empty} PROVE Torn(f) \subseteq File
    <3>1. ASSUME f \in Contents, NEW s \in SUBSET f.plain
          PROVE  [plain |-> s, block |-> {}] \in Contents
      BY <3>1, Parts, Whole
    <3> QED BY <3>1 DEF Torn, Readable
  <2>3. hosts' \in File /\ saved' \in File
    BY <1>10, <2>1, <2>2 DEF Kill
  <2>4. settled' \in BOOLEAN /\ fresh' \in BOOLEAN
    BY <1>10 DEF Kill
  <2> QED BY <1>10, <2>3, <2>4 DEF Kill
<1>11. CASE AddCustom
  <2>1. PICK e \in Entry : saved' = [saved EXCEPT !.plain = @ \cup {e}] /\ custom' = custom \cup {e}
    BY <1>11 DEF AddCustom
  <2>2. saved \in Contents
    BY <1>11 DEF AddCustom, Readable
  <2>3. saved' \in Contents
    <3>1. [saved EXCEPT !.plain = @ \cup {e}] = [plain |-> saved.plain \cup {e}, block |-> saved.block]
      BY <2>2, Parts DEF Contents
    <3>2. saved.plain \cup {e} \subseteq Entry \cup Node /\ saved.block \subseteq Node
      BY <2>2, Parts
    <3> QED BY <2>1, <3>1, <3>2, Whole
  <2>4. changes' \in 0..MaxChanges
    BY <1>11 DEF AddCustom, Changed
  <2>5. settled' \in BOOLEAN /\ fresh' \in BOOLEAN
    BY <1>11 DEF AddCustom, Changed
  <2>6. UNCHANGED <<markers, hosts, group, run, kills>>
    BY <1>11 DEF AddCustom
  <2> QED BY <2>1, <2>3, <2>4, <2>5, <2>6
<1>12. CASE ChangeGroup
  <2>1. group' \in [Node -> 0..4]
    BY <1>12 DEF ChangeGroup
  <2>2. changes' \in 0..MaxChanges
    BY <1>12 DEF ChangeGroup, Changed
  <2>3. settled' \in BOOLEAN /\ fresh' \in BOOLEAN
    BY <1>12 DEF ChangeGroup, Changed
  <2>4. UNCHANGED <<files, run, custom, kills>>
    BY <1>12 DEF ChangeGroup
  <2> QED BY <2>1, <2>2, <2>3, <2>4
<1>13. CASE UNCHANGED vars
  BY <1>13 DEF vars
<1> QED BY <1>1, <1>2, <1>3, <1>4, <1>5, <1>6, <1>7, <1>8, <1>9, <1>10, <1>11, <1>12, <1>13 DEF Next

LEMMA TypeInvariant == Spec => []TypeInv
BY TypeInit, TypeStep, PTL DEF Spec

\* The types; files are whole, truncated or missing.
THEOREM TypeTheorem == Spec => []TypeOK
<1>1. TypeInv => TypeOK
  BY DEF TypeInv
<1> QED BY <1>1, TypeInvariant, PTL

-------------------------------------------------------------------------------
(* The entries of the user *)

\* They are in /etc/caasp/hosts once that has been written, and before in /etc/hosts,
\* which no run gets to replace until then.  Where there is no /etc/hosts, there are none.
FilesInv ==
  /\ saved \in Contents => Loaded(saved) = custom
  /\ saved \notin Contents =>
       /\ hosts \in Contents \cup {Absent} /\ In(hosts) = custom
       /\ pc \in {"idle", "save", "save-write", "save-clean", "load"}
  /\ pc \in {"save", "save-write"} => orig = IF hosts = Absent THEN Empty ELSE hosts
  /\ pc = "save-write" => saved = Empty

LEMMA NoContents == Absent \notin Contents /\ Empty \notin Contents
OBVIOUS

LEMMA FilesInit == Init => FilesInv
<1> SUFFICES ASSUME Init PROVE FilesInv
  OBVIOUS
<1>1. hosts \in Contents \cup {Absent}
  BY DEF Init, Contents
<1> QED BY <1>1, NoContents DEF Init, FilesInv

LEMMA FilesStep ==
  ASSUME ~Large, TypeInv, FilesInv, [Next]_vars
  PROVE  FilesInv'
<1> USE NoContents DEF FilesInv, In, Readable, files, run, history
<1>1. CASE ReadHosts
  BY <1>1 DEF ReadHosts, Loaded
<1>2. CASE Save
  BY <1>2 DEF Save, Loaded
<1>3. CASE SaveWrite
  <2>1. /\ saved' = orig /\ pc' = "save-clean" /\ saved \notin Contents
        /\ UNCHANGED <<markers, hosts, custom>>
    BY <1>3 DEF SaveWrite
  <2>2. CASE hosts = Absent
    BY <1>3, <2>1, <2>2 DEF SaveWrite
  <2>3. CASE hosts \in Contents
    <3>1. orig = hosts /\ Loaded(hosts) = custom
      BY <1>3, <2>1, <2>3 DEF SaveWrite
    <3> QED BY <2>1, <2>3, <3>1 DEF Loaded
  <2> QED BY <2>1, <2>2, <2>3
<1>4. CASE SaveClean
  <2>1. /\ saved \in Contents \cup {Empty} /\ pc' = "load"
        /\ UNCHANGED <<markers, custom, hosts>>
    BY <1>4 DEF SaveClean, TypeInv
  <2>2. CASE markers /\ saved \in Contents
    <3>1. saved' = [saved EXCEPT !.block = {}]
      BY <1>4, <2>2 DEF SaveClean
    <3>2. saved'.plain = saved.plain /\ saved' \in Contents
      BY <2>2, <3>1 DEF Contents
    <3> QED BY <2>1, <2>2, <3>2 DEF Loaded
  <2>3. CASE ~(markers /\ saved \in Contents)
    BY <1>4, <2>1, <2>3 DEF SaveClean, Loaded
  <2> QED BY <2>2, <2>3
<1>5. CASE LoadSaved
  BY <1>5 DEF LoadSaved, Loaded
<1>6. CASE FailToLoad
  BY <1>6 DEF FailToLoad, Loaded
<1>7. CASE QueryMine
  BY <1>7 DEF QueryMine, Loaded
<1>8. CASE Truncate
  BY <1>8 DEF Truncate, Loaded
<1>9. CASE Write
  BY <1>9 DEF Write, Loaded
<1>10. CASE Kill
  <2>1. Torn(orig) = {Empty}
    BY DEF Torn
  <2>2. UNCHANGED <<markers, custom>> /\ pc' = "idle"
    BY <1>10 DEF Kill
  <2>3. CASE pc = "save-write"
    <3>1. saved' = Empty /\ hosts' = hosts
      BY <1>10, <2>1, <2>3 DEF Kill
    <3> QED BY <2>2, <2>3, <3>1 DEF Loaded
  <2>4. CASE pc # "save-write"
    <3>1. saved' = saved /\ (pc # "write" => hosts' = hosts)
      BY <1>10, <2>4 DEF Kill
    <3> QED BY <2>2, <3>1 DEF Loaded
  <2> QED BY <2>3, <2>4
<1>11. CASE AddCustom
  <2>1. PICK e \in Entry : saved' = [saved EXCEPT !.plain = @ \cup {e}] /\ custom' = custom \cup {e}
    BY <1>11 DEF AddCustom
  <2>2. saved \in Contents /\ UNCHANGED <<markers, hosts, run>>
    BY <1>11 DEF AddCustom, Readable
  <2>3. saved'.plain = saved.plain \cup {e} /\ saved'.block = saved.block
    BY <2>1, <2>2 DEF Contents
  <2>4. Loaded(saved)' = Loaded(saved) \cup {e}
    BY <2>2, <2>3 DEF Loaded
  <2>5. saved' \in Contents
    <3>1. saved' = [plain |-> saved.plain \cup {e}, block |-> saved.block]
      BY <2>1, <2>2 DEF Contents
    <3>2. saved.plain \cup {e} \subseteq Entry \cup Node /\ saved.block \subseteq Node
      BY <2>2, Parts
    <3> QED BY <3>1, <3>2, Whole
  <2> QED BY <2>1, <2>2, <2>4, <2>5
<1>12. CASE ChangeGroup
  BY <1>12 DEF ChangeGroup, Loaded
<1>13. CASE UNCHANGED vars
  BY <1>13 DEF vars, Loaded
<1> QED BY <1>1, <1>2, <1>3, <1>4, <1>5, <1>6, <1>7, <1>8, <1>9, <1>10, <1>11, <1>12, <1>13 DEF Next

LEMMA FilesInvariant ==
  ASSUME ~Large
  PROVE  Spec => []FilesInv
<1>1. TypeInv /\ FilesInv /\ [Next]_vars => FilesInv'
  BY FilesStep
<1> QED BY <1>1, FilesInit, TypeInvariant, PTL DEF Spec

\* However often runs are killed, the entries of the user are in one of the files.
THEOREM CustomTheorem ==
  ASSUME ~Large
  PROVE  Spec => []CustomSurvives
<1>1. FilesInv => CustomSurvives
  BY DEF FilesInv, CustomSurvives, In, Readable
<1> QED BY <1>1, FilesInvariant, PTL

-------------------------------------------------------------------------------
(* What is in the hosts file *)

Mined == {n \in Node : group[n] \in Groups}
Exact == [plain |-> custom \cup Mined, block |-> {}]

\* Unless something has changed since the run began, it has collected the entries of
\* the user and the nodes of the queries it has made; where a run has ended before,
\* it has found the file that it is going to write.
ContentInv ==
  /\ fresh /\ pc = "query" => entries = custom \cup {n \in Node : group[n] \in 1..(query - 1)}
  /\ fresh /\ pc \in {"truncate", "write"} => entries = custom \cup Mined
  /\ settled => fresh
  /\ settled /\ pc # "write" => hosts = Exact
  /\ settled /\ pc # "idle" => orig = Exact

LEMMA ContentStep ==
  ASSUME TypeInv, FilesInv, ContentInv, [Next]_vars
  PROVE  ContentInv'
<1> USE DEF ContentInv, files, run, history
<1>1. CASE ReadHosts
  <2>1. Exact \in Contents
    BY Whole DEF Exact, Mined, TypeInv, TypeOK
  <2> QED BY <1>1, <2>1, NoContents DEF ReadHosts, Exact, Mined
<1>2. CASE Save
  BY <1>2 DEF Save, Exact, Mined
<1>3. CASE SaveWrite
  BY <1>3 DEF SaveWrite, Exact, Mined
<1>4. CASE SaveClean
  BY <1>4 DEF SaveClean, Exact, Mined
<1>5. CASE LoadSaved
  <2>1. entries' = custom
    BY <1>5 DEF LoadSaved, Readable, FilesInv
  <2>2. query' = 1 /\ pc' = "query" /\ pc = "load" /\ UNCHANGED <<files, group, orig, history>>
    BY <1>5 DEF LoadSaved
  <2>3. {n \in Node : group[n] \in 1..0} = {}
    OBVIOUS
  <2> QED BY <2>1, <2>2, <2>3 DEF Exact, Mined
<1>6. CASE FailToLoad
  BY <1>6 DEF FailToLoad, Exact, Mined
<1>7. CASE QueryMine
  <2>1. /\ pc = "query" /\ query \in 1..4 /\ group \in [Node -> 0..4]
        /\ entries' = entries \cup {n \in Node : group[n] = query}
        /\ UNCHANGED <<files, group, orig, ret, history>>
    BY <1>7 DEF QueryMine, TypeInv, TypeOK
  <2>2. fresh => entries' = custom \cup {n \in Node : group[n] \in 1..query}
    BY <2>1
  <2>3. pc' = "query" => query' - 1 = query
    BY <1>7, <2>1 DEF QueryMine
  <2>4. pc' \in {"truncate", "write"} => query = 4
    BY <1>7, <2>1 DEF QueryMine
  <2>5. pc' # "idle"
    BY <1>7 DEF QueryMine
  <2>6. Mined' = Mined /\ Exact' = Exact
    BY <2>1 DEF Exact, Mined
  <2> QED BY <2>1, <2>2, <2>3, <2>4, <2>5, <2>6 DEF Mined, Groups
<1>8. CASE Truncate
  BY <1>8 DEF Truncate, Exact, Mined
<1>9. CASE Write
  BY <1>9 DEF Write, Exact, Mined, New
<1>10. CASE Kill
  BY <1>10 DEF Kill
<1>11. CASE AddCustom
  BY <1>11 DEF AddCustom, Changed
<1>12. CASE ChangeGroup
  BY <1>12 DEF ChangeGroup, Changed
<1>13. CASE UNCHANGED vars
  BY <1>13 DEF vars, Exact, Mined
<1> QED BY <1>1, <1>2, <1>3, <1>4, <1>5, <1>6, <1>7, <1>8, <1>9, <1>10, <1>11, <1>12, <1>13 DEF Next

LEMMA ContentInvariant ==
  ASSUME ~Large
  PROVE  Spec => []ContentInv
<1>1. Init => ContentInv
  BY DEF Init, ContentInv
<1>2. TypeInv /\ FilesInv /\ ContentInv /\ [Next]_vars => ContentInv'
  BY ContentStep
<1> QED BY <1>1, <1>2, TypeInvariant, FilesInvariant, PTL DEF Spec

\* After an undisturbed run the file has the user's entries and the nodes of the mine.
THEOREM ExactTheorem ==
  ASSUME ~Large
  PROVE  Spec => []HostsExact
<1>1. ContentInv => HostsExact
  BY DEF ContentInv, HostsExact, Exact, Mined
<1> QED BY <1>1, ContentInvariant, PTL

\* The run after an undisturbed one changes nothing, and says so.
THEOREM IdempotentTheorem ==
  ASSUME ~Large
  PROVE  Spec => Idempotent
<1>1. ContentInv /\ [Next]_vars =>
        [settled /\ pc = "write" /\ pc' = "idle" /\ ret' # "error"
           => hosts' = orig /\ ret' = "unchanged"]_vars
  <2> SUFFICES ASSUME ContentInv, [Next]_vars,
                      settled, pc = "write", pc' = "idle", ret' # "error"
               PROVE  hosts' = orig /\ ret' = "unchanged"
    OBVIOUS
  <2>1. Write
    BY DEF Next, vars, run, ReadHosts, Save, SaveWrite, SaveClean, LoadSaved, FailToLoad, QueryMine,
           Truncate, Kill, AddCustom, ChangeGroup
  <2>2. orig = Exact /\ New = Exact
    BY DEF ContentInv, New, Exact
  <2> QED BY <2>1, <2>2 DEF Write
<1> QED BY <1>1, ContentInvariant, PTL DEF Spec, Idempotent
===============================================================================
