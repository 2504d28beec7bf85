---------------------------- MODULE StartupProofs ----------------------------
(***************************************************************************)
(* Proofs about Startup, for every number of processes, starts and rows.    *)
(***************************************************************************)
EXTENDS Startup, TLAPS

-----------------------------------------------------------------------------
(* The inductive invariant, in parts.                                       *)

Nats == {"nats", "jetstream"}
Unconnected == {"sqlite", "mysql", "dqlite"}

\* Which drivers can be where: only New of pgsql makes the connection, and what
\* lies behind compactStart is reached with one or from NATS.
DriverAt(p) ==
    LET pc == proc[p].pc IN
    /\ proc[p].comms => driver(p) = "postgres"
    /\ pc = "setup" => driver(p) \in {"sqlite", "dqlite"}
    /\ pc \in {"migrate", "copy"} => driver(p) = "dqlite"
    /\ pc \in {"embed", "bucket"} => driver(p) \in Nats
    /\ pc = "start" => driver(p) \in Nats \cup Unconnected \/ proc[p].comms
    /\ pc \in {"append", "health", "create"} => proc[p].comms
    /\ pc \in {"listen", "bind", "chmod", "serving"} => driver(p) \in Nats \cup {"postgres"}
    /\ pc = "panicked" => driver(p) \in Unconnected \/ (driver(p) = "postgres" /\ overlap)

Written(r) == seen[r] + hidden[r] # 0 \/ r \in faulty

\* How far the rows are at each step of a start.
RowsAt(p) ==
    LET pc == proc[p].pc
        sent == proc[p].sent
    IN
    /\ pc = "append" => sent = "compact" \/ (sent = "none" /\ Written("compact"))
    /\ pc \in {"health", "create"} => Written("compact")
    /\ pc = "create" => sent = "health" \/ (sent = "none" /\ Written("health"))
    /\ pc \in {"listen", "bind", "chmod", "serving"} /\ driver(p) = "postgres" =>
         Written("compact") /\ Written("health")

\* Without an overlap there is one compact_rev_key at most, a call that is to
\* write it counted in.
OneCompactKey ==
    ~ overlap =>
        /\ seen["compact"] + hidden["compact"] + late["compact"] <= 1
        /\ \A p \in Procs : proc[p].sent = "compact" =>
             /\ seen["compact"] = 0 /\ hidden["compact"] = 0 /\ late["compact"] = 0
             /\ \A q \in Procs : proc[q].sent = "compact" => q = p

\* A migration that is incomplete is going on or was interrupted.
Migration ==
    /\ \A p \in Procs : proc[p].copied \subseteq newRows
    /\ newRows # {} /\ newRows # OldRows => broken \/ \E p \in Procs : At(p, "copy")
    /\ \A p \in Procs : driver(p) = "dqlite" /\ At(p, "start") =>
         newRows # {} \/ OldRows = {} \/ skipped

IndInv ==
    /\ TypeOK /\ OneCompactKey /\ Migration
    /\ \A p \in Procs : DriverAt(p) /\ RowsAt(p)

-----------------------------------------------------------------------------
(* The steps that write neither rows nor a migration.                       *)

\* The process p gets a new state, the others keep theirs.
Moved(p, pc, comms, copied, sent) ==
    /\ proc' \in [Procs -> Processes]
    /\ \A q \in Procs : q # p => proc'[q] = proc[q]
    /\ proc'[p].pc = pc /\ proc'[p].comms = comms
    /\ proc'[p].copied = copied /\ proc'[p].sent = sent

\* The ways in which the steps of a start change it.
LEMMA GoMoves == ASSUME TypeOK, NEW p \in Procs, NEW pc \in Pcs, Go(p, pc)
                 PROVE  Moved(p, pc, proc[p].comms, proc[p].copied, proc[p].sent)
BY DEF Go, Moved, TypeOK, Processes

\* A process that exits leaves nothing of its start.
LEMMA ExitMoves == ASSUME TypeOK, NEW p \in Procs, Exit(p)
                   PROVE  Moved(p, "exited", FALSE, {}, "none")
BY DEF Exit, Down, Moved, TypeOK, Processes, Pcs, Ended

\* A row is sent, or its answer is there.
LEMMA SendMoves == ASSUME TypeOK, NEW p \in Procs, NEW pc \in Pcs, NEW r \in Rows \cup {"none"},
                          Send(p, pc, r)
                   PROVE  Moved(p, pc, proc[p].comms, proc[p].copied, r)
BY DEF Send, Moved, TypeOK, Processes

\* The steps that are taken before the first row and after the last.
Aside(p) ==
    \/ Launch(p) \/ NewFails(p) \/ NewPgsql(p) \/ NewMysql(p) \/ NewVariant(p) \/ setup(p)
    \/ NewNats(p) \/ ReadyForConnections(p) \/ StartNats(p) \/ StartUnconnected(p)
    \/ compactStartFails(p) \/ \E r \in Rows : Answered(p, r)
    \/ \E h \in Histories : CreateBucket(p, h)
    \/ ListenFails(p) \/ ListenTcp(p) \/ RemoveSocket(p) \/ ListenUnix(p) \/ Chmod(p)

\* What they leave alone.
Framed(p) ==
    /\ Moved(p, proc'[p].pc, proc'[p].comms, proc'[p].copied, proc'[p].sent)
    /\ proc'[p].copied \in {proc[p].copied, {}} /\ proc'[p].sent \in {proc[p].sent, "none"}
    /\ ~ At(p, "copy") /\ ~ At(p, "copy")'
    /\ At(p, "start")' => driver(p) # "dqlite"
    /\ UNCHANGED <<table, endpoint, newRows, history>>
    /\ starts' \in 0..MaxStarts /\ bucket' \in Histories \cup {0}
    /\ port' \in Procs \cup {NoOne} /\ sock' \in Procs \cup {NoOne}

\* They do.
LEMMA AsideFrame == ASSUME IndInv, NEW p \in Procs, Aside(p) PROVE Framed(p)
<1>1. TypeOK /\ DriverAt(p) /\ proc[p] \in Processes
  BY DEF IndInv, TypeOK
<1>2. ASSUME Launch(p) PROVE Framed(p)
  <2>1. PICK pc \in {"etcd", "exited", "new"} : proc' = [proc EXCEPT ![p] = [Down EXCEPT !.pc = pc]]
    BY <1>2 DEF Launch
  <2>2. Moved(p, pc, FALSE, {}, "none")
    BY <1>1, <2>1 DEF Moved, Down, TypeOK, Processes, Pcs, Ended
  <2> QED
    BY <1>1, <1>2, <2>2, StartupAssumption
       DEF Launch, Moved, Framed, TypeOK, Pcs, Ended, At, disk, net
<1>3. ASSUME NewFails(p) PROVE Framed(p)
  <2>1. Moved(p, "exited", FALSE, {}, "none")
    BY <1>1, <1>3, ExitMoves DEF NewFails
  <2> QED
    BY <1>1, <1>3, <2>1 DEF NewFails, Untouched, Moved, Framed, TypeOK, Pcs, Ended, At, disk, net
<1>4. ASSUME NewPgsql(p) PROVE Framed(p)
  <2>1. Moved(p, "start", TRUE, proc[p].copied, proc[p].sent)
    BY <1>1, <1>4 DEF NewPgsql, Moved, TypeOK, Processes, Pcs
  <2> QED
    BY <1>1, <1>4, <2>1
       DEF NewPgsql, News, Untouched, Moved, Framed, TypeOK, Pcs, Ended, At, disk, net
<1>5. ASSUME NewMysql(p) PROVE Framed(p)
  BY <1>1, <1>5, GoMoves
     DEF NewMysql, News, Panic, Untouched, Moved, Framed, DriverAt, Nats, Unconnected, TypeOK,
         Processes, Pcs, Ended, At, disk, net
<1>6. ASSUME NewVariant(p) PROVE Framed(p)
  BY <1>1, <1>6, GoMoves
     DEF NewVariant, News, Panic, Untouched, Moved, Framed, DriverAt, Nats, Unconnected, TypeOK,
         Processes, Pcs, Ended, At, disk, net
<1>7. ASSUME setup(p) PROVE Framed(p)
  <2>1. \/ Moved(p, "exited", FALSE, {}, "none")
        \/ Moved(p, IF driver(p) = "dqlite" THEN "migrate" ELSE "start",
                 proc[p].comms, proc[p].copied, proc[p].sent)
    BY <1>1, <1>7, GoMoves, ExitMoves DEF setup, Pcs, Ended
  <2> QED
    BY <1>1, <1>7, <2>1
       DEF setup, Untouched, Processes, Moved, Framed, TypeOK, Pcs, Ended, At, disk, net
<1>8. ASSUME NewNats(p) PROVE Framed(p)
  BY <1>1, <1>8, GoMoves
     DEF NewNats, News, Untouched, Moved, Framed, DriverAt, Nats, Unconnected, TypeOK, Processes,
         Pcs, Ended, At, disk, net
<1>9. ASSUME ReadyForConnections(p) PROVE Framed(p)
  BY <1>1, <1>9, GoMoves
     DEF ReadyForConnections, Untouched, Moved, Framed, DriverAt, Nats, Unconnected, TypeOK,
         Processes, Pcs, Ended, At, disk, net
<1>10. ASSUME StartNats(p) PROVE Framed(p)
  BY <1>1, <1>10, GoMoves
     DEF StartNats, Untouched, Moved, Framed, DriverAt, Nats, Unconnected, TypeOK, Processes, Pcs,
         Ended, At, disk, net
<1>11. ASSUME StartUnconnected(p) PROVE Framed(p)
  BY <1>1, <1>11, GoMoves
     DEF StartUnconnected, StartsSql, Panic, Untouched, Moved, Framed, DriverAt, Nats, Unconnected,
         TypeOK, Processes, Pcs, Ended, At, disk, net
<1>12. ASSUME compactStartFails(p) PROVE Framed(p)
  BY <1>1, <1>12, ExitMoves
     DEF compactStartFails, StartsSql, Untouched, Moved, Framed, DriverAt, Nats, Unconnected,
         TypeOK, Processes, Pcs, Ended, At, disk, net
<1>13. ASSUME NEW r \in Rows, Answered(p, r) PROVE Framed(p)
  BY <1>1, <1>13, GoMoves
     DEF Answered, Waiting, Untouched, Moved, Framed, DriverAt, Nats, Unconnected, TypeOK,
         Processes, Pcs, Ended, At, disk, net
<1>14. ASSUME NEW h \in Histories, CreateBucket(p, h) PROVE Framed(p)
  <2>1. \/ Moved(p, "exited", FALSE, {}, "none")
        \/ Moved(p, "start", proc[p].comms, proc[p].copied, proc[p].sent)
    BY <1>1, <1>14, GoMoves, ExitMoves DEF CreateBucket, Pcs, Ended
  <2>2. driver(p) # "dqlite"
    BY <1>1, <1>14 DEF CreateBucket, DriverAt, Nats, At
  <2> QED
    BY <1>1, <1>14, <2>1, <2>2
       DEF CreateBucket, Processes, Moved, Framed, TypeOK, Pcs, Ended, At, disk, net
<1>15. ASSUME ListenFails(p) PROVE Framed(p)
  BY <1>1, <1>15, ExitMoves
     DEF ListenFails, Untouched, Moved, Framed, DriverAt, Nats, Unconnected, TypeOK, Processes,
         Pcs, Ended, At, disk, net
<1>16. ASSUME ListenTcp(p) PROVE Framed(p)
  BY <1>1, <1>16, GoMoves
     DEF ListenTcp, Moved, Framed, DriverAt, Nats, Unconnected, TypeOK, Processes, Pcs, Ended, At,
         disk, net
<1>17. ASSUME RemoveSocket(p) PROVE Framed(p)
  BY <1>1, <1>17, GoMoves
     DEF RemoveSocket, Moved, Framed, DriverAt, Nats, Unconnected, TypeOK, Processes, Pcs, Ended,
         At, disk, net
<1>18. ASSUME ListenUnix(p) PROVE Framed(p)
  <2>1. \/ Moved(p, "exited", FALSE, {}, "none")
        \/ Moved(p, "chmod", proc[p].comms, proc[p].copied, proc[p].sent)
    BY <1>1, <1>18, GoMoves, ExitMoves DEF ListenUnix, Pcs, Ended
  <2> QED
    BY <1>1, <1>18, <2>1 DEF ListenUnix, Processes, Moved, Framed, TypeOK, Pcs, Ended, At, disk, net
<1>19. ASSUME Chmod(p) PROVE Framed(p)
  <2>1. \/ Moved(p, "exited", FALSE, {}, "none")
        \/ Moved(p, "serving", proc[p].comms, proc[p].copied, proc[p].sent)
    BY <1>1, <1>19, GoMoves, ExitMoves DEF Chmod, Pcs, Ended
  <2> QED
    BY <1>1, <1>19, <2>1
       DEF Chmod, Untouched, Processes, Moved, Framed, TypeOK, Pcs, Ended, At, disk, net
<1> QED
  BY <1>2, <1>3, <1>4, <1>5, <1>6, <1>7, <1>8, <1>9, <1>10, <1>11, <1>12, <1>13, <1>14, <1>15,
     <1>16, <1>17, <1>18, <1>19
     DEF Aside

-----------------------------------------------------------------------------
(* What the steps do to the parts.                                          *)

\* dqlite's database has rows, is to take over the old ones, or goes on without.
LEMMA MigrateMoves ==
    ASSUME TypeOK, NEW p \in Procs, migrate(p) \/ migrateSkips(p)
    PROVE  /\ At(p, "migrate") /\ skipped' \in BOOLEAN /\ (skipped => skipped')
           /\ UNCHANGED <<starts, table, disk, net, overlap, faulty, broken>>
           /\ \/ Moved(p, "exited", FALSE, {}, "none")
              \/ Moved(p, "copy", proc[p].comms, proc[p].copied, proc[p].sent)
              \/ /\ newRows # {} \/ skipped'
                 /\ Moved(p, "start", proc[p].comms, proc[p].copied, proc[p].sent)
<1>1. "start" \in Pcs /\ "copy" \in Pcs
  BY DEF Pcs
<1>2. CASE migrate(p)
  <2>1. /\ At(p, "migrate") /\ Untouched
        /\ \/ Exit(p) \/ Go(p, "copy")
           \/ newRows # {} /\ Go(p, "start")
    BY <1>2 DEF migrate
  <2> QED
    BY <1>1, <2>1, GoMoves, ExitMoves DEF TypeOK, Untouched, history
<1>3. CASE migrateSkips(p)
  <2>1. /\ At(p, "migrate") /\ Go(p, "start") /\ skipped' = TRUE
        /\ UNCHANGED <<starts, table, disk, net, overlap, faulty, broken>>
    BY <1>3 DEF migrateSkips
  <2> QED
    BY <1>1, <2>1, GoMoves
<1> QED
  BY <1>2, <1>3

\* A row is copied, or one that is there already ends the start.
LEMMA RowMoves ==
    ASSUME TypeOK, NEW p \in Procs, NEW r \in OldRows, migrateRow(p, r)
    PROVE  /\ At(p, "copy") /\ broken' = (broken \/ r \in newRows)
           /\ UNCHANGED <<starts, seen, hidden, late, endpoint, bucket, port, sock, overlap, faulty, skipped>>
           /\ \/ /\ r \in newRows /\ newRows' = newRows
                 /\ Moved(p, "exited", FALSE, {}, "none")
              \/ /\ r \notin newRows /\ newRows' = newRows \cup {r}
                 /\ Moved(p, "copy", proc[p].comms, proc[p].copied \cup {r}, proc[p].sent)
<1>1. CASE r \in newRows
  BY <1>1, ExitMoves DEF migrateRow, table, net
<1>2. CASE r \notin newRows
  <2>1. proc' = [proc EXCEPT ![p].copied = @ \cup {r}] /\ At(p, "copy")
    BY <1>2 DEF migrateRow
  <2>2. Moved(p, "copy", proc[p].comms, proc[p].copied \cup {r}, proc[p].sent)
    BY <2>1 DEF Moved, TypeOK, Processes, At
  <2> QED
    BY <1>2, <2>2 DEF migrateRow, table, net
<1> QED
  BY <1>1, <1>2

\* A call that is given up on is counted.
LEMMA AbandonType == ASSUME TypeOK, NEW p \in Procs, Abandon(p) PROVE late' \in [Rows -> 0..2]
BY DEF Abandon, Two, TypeOK

\* Types are kept.
LEMMA TypesKept == ASSUME IndInv, Next PROVE TypeOK'
<1>1. ASSUME NEW p \in Procs, Aside(p) PROVE TypeOK'
  <2>1. Framed(p)
    BY <1>1, AsideFrame
  <2> QED
    BY <2>1 DEF IndInv, Framed, Moved, TypeOK, table, history
<1>2. ASSUME NEW p \in Procs, migrate(p) \/ migrateSkips(p) PROVE TypeOK'
  BY <1>2, MigrateMoves DEF IndInv, Moved, TypeOK, table, disk, net
<1>3. ASSUME NEW p \in Procs, migrateFails(p) PROVE TypeOK'
  BY <1>3, StartupAssumption
     DEF IndInv, TypeOK, Processes, Pcs, Ended, Rows, migrateFails, Exit, Down, At, table, disk,
         net, history, driver
<1>4. ASSUME NEW p \in Procs, migrateEnds(p) PROVE TypeOK'
  BY <1>4, StartupAssumption
     DEF IndInv, TypeOK, Processes, Pcs, Ended, Rows, migrateEnds, Go, Untouched, At, table, disk,
         net, history, driver
<1>5. ASSUME NEW p \in Procs, NEW r \in OldRows, migrateRow(p, r) PROVE TypeOK'
  <2>1. /\ UNCHANGED <<starts, seen, hidden, late, endpoint, bucket, port, sock, overlap, faulty, skipped>>
        /\ newRows' \in {newRows, newRows \cup {r}} /\ broken' \in BOOLEAN
    BY <1>5, RowMoves DEF IndInv, TypeOK
  <2>2. proc' \in [Procs -> Processes]
    BY <1>5, RowMoves DEF IndInv, Moved
  <2> QED
    BY <2>1, <2>2 DEF IndInv, TypeOK
<1>6. ASSUME NEW p \in Procs, compactStart(p) PROVE TypeOK'
  BY <1>6, StartupAssumption, SMTT(40)
     DEF IndInv, TypeOK, Processes, Pcs, Ended, Rows, compactStart, StartsSql, Appends, Send, Go,
         At, table, disk, net, history, driver
<1>7. ASSUME NEW p \in Procs, Deadline(p) PROVE TypeOK'
  <2>1. late' \in [Rows -> 0..2] /\ Moved(p, "exited", FALSE, {}, "none")
    BY <1>7, AbandonType, ExitMoves DEF IndInv, Deadline
  <2> QED
    BY <1>7, <2>1 DEF IndInv, Deadline, Moved, TypeOK, disk, net, history
<1>8. ASSUME NEW p \in Procs, CreateHealth(p) PROVE TypeOK'
  BY <1>8, StartupAssumption
     DEF IndInv, TypeOK, Processes, Pcs, Ended, Rows, CreateHealth, Send, Go, Untouched, At, table,
         disk, net, history, driver
<1>9. ASSUME NEW p \in Procs, CreateHealthFails(p) PROVE TypeOK'
  <2>1. late' \in [Rows -> 0..2] /\ Moved(p, "listen", proc[p].comms, proc[p].copied, "none")
    BY <1>9, AbandonType, SendMoves DEF IndInv, CreateHealthFails, Pcs
  <2> QED
    BY <1>9, <2>1 DEF IndInv, CreateHealthFails, Moved, TypeOK, Rows, disk, net
<1>10. ASSUME NEW p \in Procs, Ends(p) PROVE TypeOK'
  BY <1>10, StartupAssumption
     DEF IndInv, TypeOK, Processes, Pcs, Ended, Rows, Ends, Down, Abandon, Two, At, table, disk,
         net, history, driver
<1>11. ASSUME NEW p \in Procs, PublishFor(p) PROVE TypeOK'
  BY <1>11, StartupAssumption, SMTT(40)
     DEF IndInv, TypeOK, Processes, Pcs, Ended, Rows, PublishFor, RequestPublish, Two, At, table,
         disk, net, history, driver
<1>12. ASSUME NEW r \in Rows, PublishLate(r) PROVE TypeOK'
  <2>1. seen' \in [Rows -> 0..2] /\ faulty' \subseteq Rows
    BY <1>12 DEF IndInv, PublishLate, RequestPublish, Two, TypeOK
  <2>2. late' \in [Rows -> 0..2]
    BY <1>12 DEF IndInv, PublishLate, TypeOK
  <2> QED
    BY <1>12, <2>1, <2>2 DEF IndInv, PublishLate, RequestPublish, TypeOK, disk, net
<1>13. ASSUME WriterDies PROVE TypeOK'
  BY <1>13, StartupAssumption
     DEF IndInv, TypeOK, Processes, Pcs, Ended, Rows, WriterDies, Two, At, table, disk, net,
         history, driver
<1>14. ASSUME Republish PROVE TypeOK'
  BY <1>14, StartupAssumption
     DEF IndInv, TypeOK, Processes, Pcs, Ended, Rows, Republish, Two, At, table, disk, net,
         history, driver
<1> QED
  BY <1>1, <1>2, <1>3, <1>4, <1>5, <1>6, <1>7, <1>8, <1>9, <1>10, <1>11, <1>12, <1>13, <1>14
     DEF Next, Connect, Listen, Aside

\* So is the one compact_rev_key.
LEMMA CompactKept == ASSUME IndInv, Next PROVE OneCompactKey'
<1>1. ASSUME NEW p \in Procs, Aside(p) PROVE OneCompactKey'
  <2>1. Framed(p)
    BY <1>1, AsideFrame
  <2> QED
    BY <2>1 DEF IndInv, Framed, Moved, OneCompactKey, table, history
<1>2. ASSUME NEW p \in Procs, migrate(p) \/ migrateSkips(p) PROVE OneCompactKey'
  BY <1>2, StartupAssumption, SMTT(40)
     DEF IndInv, TypeOK, Processes, OneCompactKey, Rows, migrate, migrateSkips, Exit, Down, Go, Untouched,
         At, table, disk, net, history, driver
<1>3. ASSUME NEW p \in Procs, migrateFails(p) PROVE OneCompactKey'
  BY <1>3, StartupAssumption
     DEF IndInv, TypeOK, Processes, OneCompactKey, Rows, migrateFails, Exit, Down, At, table, disk,
         net, history, driver
<1>4. ASSUME NEW p \in Procs, migrateEnds(p) PROVE OneCompactKey'
  BY <1>4, StartupAssumption
     DEF IndInv, TypeOK, Processes, OneCompactKey, Rows, migrateEnds, Go, Untouched, At, table,
         disk, net, history, driver
<1>5. ASSUME NEW p \in Procs, NEW r \in OldRows, migrateRow(p, r) PROVE OneCompactKey'
  <2>1. UNCHANGED <<seen, hidden, late, overlap>>
    BY <1>5, RowMoves DEF IndInv
  <2>2. \A q \in Procs : proc'[q].sent = "compact" => proc[q].sent = "compact"
    BY <1>5, RowMoves DEF IndInv, Moved
  <2> QED
    BY <2>1, <2>2 DEF IndInv, OneCompactKey
<1>6. ASSUME NEW p \in Procs, compactStart(p) PROVE OneCompactKey'
  BY <1>6, StartupAssumption
     DEF IndInv, TypeOK, Processes, OneCompactKey, Rows, compactStart, StartsSql, Appends, Send,
         Go, At, table, disk, net, history, driver
<1>7. ASSUME NEW p \in Procs, Deadline(p) PROVE OneCompactKey'
  BY <1>7, StartupAssumption
     DEF IndInv, TypeOK, Processes, OneCompactKey, Rows, Deadline, Waiting, Exit, Down, Abandon,
         Two, At, table, disk, net, history, driver
<1>8. ASSUME NEW p \in Procs, CreateHealth(p) PROVE OneCompactKey'
  BY <1>8, StartupAssumption
     DEF IndInv, TypeOK, Processes, OneCompactKey, Rows, CreateHealth, Send, Go, Untouched, At,
         table, disk, net, history, driver
<1>9. ASSUME NEW p \in Procs, CreateHealthFails(p) PROVE OneCompactKey'
  BY <1>9, StartupAssumption
     DEF IndInv, TypeOK, Processes, OneCompactKey, Rows, CreateHealthFails, Waiting, Send, Abandon,
         Two, At, table, disk, net, history, driver
<1>10. ASSUME NEW p \in Procs, Ends(p) PROVE OneCompactKey'
  BY <1>10, StartupAssumption
     DEF IndInv, TypeOK, Processes, OneCompactKey, Rows, Ends, Down, Abandon, Two, At, table, disk,
         net, history, driver
<1>11. ASSUME NEW p \in Procs, PublishFor(p) PROVE OneCompactKey'
  BY <1>11, StartupAssumption
     DEF IndInv, TypeOK, Processes, OneCompactKey, Rows, PublishFor, RequestPublish, Two, At,
         table, disk, net, history, driver
<1>12. ASSUME NEW r \in Rows, PublishLate(r) PROVE OneCompactKey'
  BY <1>12, StartupAssumption
     DEF IndInv, TypeOK, Processes, OneCompactKey, Rows, PublishLate, RequestPublish, Two, At,
         table, disk, net, history, driver
<1>13. ASSUME WriterDies PROVE OneCompactKey'
  BY <1>13, StartupAssumption
     DEF IndInv, TypeOK, Processes, OneCompactKey, Rows, WriterDies, Two, At, table, disk, net,
         history, driver
<1>14. ASSUME Republish PROVE OneCompactKey'
  BY <1>14, StartupAssumption
     DEF IndInv, TypeOK, Processes, OneCompactKey, Rows, Republish, Two, At, table, disk, net,
         history, driver
<1> QED
  BY <1>1, <1>2, <1>3, <1>4, <1>5, <1>6, <1>7, <1>8, <1>9, <1>10, <1>11, <1>12, <1>13, <1>14
     DEF Next, Connect, Listen, Aside

\* And what is known of migrations.
LEMMA MigrationKept == ASSUME IndInv, Next PROVE Migration'
<1>1. ASSUME NEW p \in Procs, Aside(p) PROVE Migration'
  <2>1. Framed(p)
    BY <1>1, AsideFrame
  <2> QED
    BY <2>1 DEF IndInv, Framed, Moved, Migration, At, driver, history
<1>2. ASSUME NEW p \in Procs, migrate(p) \/ migrateSkips(p) PROVE Migration'
  <2>1. /\ At(p, "migrate") /\ (skipped => skipped') /\ UNCHANGED <<newRows, endpoint, broken>>
    BY <1>2, MigrateMoves DEF IndInv, disk
  <2>2. \A q \in Procs : q # p => proc'[q] = proc[q]
    BY <1>2, MigrateMoves DEF IndInv, Moved
  <2>3. /\ proc'[p].copied \in {proc[p].copied, {}}
        /\ proc'[p].pc = "start" => newRows # {} \/ skipped'
    BY <1>2, MigrateMoves DEF IndInv, Moved
  <2>4. ~ At(p, "copy")
    BY <2>1 DEF At
  <2> QED
    BY <2>1, <2>2, <2>3, <2>4 DEF IndInv, Migration, At, driver
<1>3. ASSUME NEW p \in Procs, migrateFails(p) PROVE Migration'
  BY <1>3, StartupAssumption
     DEF IndInv, TypeOK, Processes, Migration, DriverAt, migrateFails, Exit, Down, At, table, disk,
         net, history, driver
<1>4. ASSUME NEW p \in Procs, migrateEnds(p) PROVE Migration'
  <2>1. /\ Moved(p, "start", proc[p].comms, proc[p].copied, proc[p].sent)
        /\ newRows' = newRows /\ endpoint' = endpoint /\ UNCHANGED <<broken, skipped>>
    BY <1>4, GoMoves DEF IndInv, migrateEnds, Untouched, Pcs, disk, history
  <2>2. newRows = OldRows
    BY <1>4 DEF IndInv, Migration, TypeOK, migrateEnds
  <2> QED
    BY <2>1, <2>2 DEF IndInv, Moved, Migration, At, driver
<1>5. ASSUME NEW p \in Procs, NEW r \in OldRows, migrateRow(p, r) PROVE Migration'
  <2>1. CASE r \in newRows
    BY <1>5, <2>1, RowMoves DEF IndInv, Moved, Migration, At, driver
  <2>2. CASE r \notin newRows
    <3>1. /\ newRows' = newRows \cup {r} /\ endpoint' = endpoint
          /\ Moved(p, "copy", proc[p].comms, proc[p].copied \cup {r}, proc[p].sent)
      BY <1>5, <2>2, RowMoves DEF IndInv
    <3>2. \A q \in Procs : proc'[q].copied \subseteq newRows'
      BY <3>1 DEF IndInv, Migration, Moved
    <3>3. At(p, "copy")' /\ newRows' # {}
      BY <3>1 DEF Moved, At
    <3> QED
      BY <3>2, <3>3 DEF Migration
  <2> QED
    BY <2>1, <2>2
<1>6. ASSUME NEW p \in Procs, compactStart(p) PROVE Migration'
  <2>1. /\ proc'[p].pc \in {"append", "health", "panicked"} /\ proc'[p].copied = proc[p].copied
        /\ \A q \in Procs : q # p => proc'[q] = proc[q]
    BY <1>6 DEF IndInv, TypeOK, Processes, compactStart, Send, Go
  <2>2. ~ At(p, "copy") /\ newRows' = newRows /\ endpoint' = endpoint /\ UNCHANGED <<broken, skipped>>
    BY <1>6 DEF compactStart, StartsSql, At, disk
  <2> QED
    BY <2>1, <2>2 DEF IndInv, Migration, At, driver
<1>7. ASSUME NEW p \in Procs, Deadline(p) PROVE Migration'
  BY <1>7, StartupAssumption
     DEF IndInv, TypeOK, Processes, Migration, DriverAt, Deadline, Waiting, Exit, Down, Abandon,
         Two, At, table, disk, net, history, driver
<1>8. ASSUME NEW p \in Procs, CreateHealth(p) PROVE Migration'
  BY <1>8, StartupAssumption, SMTT(40)
     DEF IndInv, TypeOK, Processes, Migration, DriverAt, CreateHealth, Send, Go, Untouched, At,
         table, disk, net, history, driver
<1>9. ASSUME NEW p \in Procs, CreateHealthFails(p) PROVE Migration'
  BY <1>9, StartupAssumption, SMTT(40)
     DEF IndInv, TypeOK, Processes, Migration, DriverAt, CreateHealthFails, Waiting, Send, Abandon,
         Two, At, table, disk, net, history, driver
<1>10. ASSUME NEW p \in Procs, Ends(p) PROVE Migration'
  BY <1>10, StartupAssumption
     DEF IndInv, TypeOK, Processes, Migration, DriverAt, Ends, Down, Abandon, Two, At, table, disk,
         net, history, driver
<1>11. ASSUME NEW p \in Procs, PublishFor(p) PROVE Migration'
  BY <1>11, StartupAssumption
     DEF IndInv, TypeOK, Processes, Migration, DriverAt, PublishFor, RequestPublish, Two, At,
         table, disk, net, history, driver
<1>12. ASSUME NEW r \in Rows, PublishLate(r) PROVE Migration'
  BY <1>12, StartupAssumption
     DEF IndInv, TypeOK, Processes, Migration, DriverAt, PublishLate, RequestPublish, Two, At,
         table, disk, net, history, driver
<1>13. ASSUME WriterDies PROVE Migration'
  BY <1>13, StartupAssumption
     DEF IndInv, TypeOK, Processes, Migration, DriverAt, WriterDies, Two, At, table, disk, net,
         history, driver
<1>14. ASSUME Republish PROVE Migration'
  BY <1>14, StartupAssumption
     DEF IndInv, TypeOK, Processes, Migration, DriverAt, Republish, Two, At, table, disk, net,
         history, driver
<1> QED
  BY <1>1, <1>2, <1>3, <1>4, <1>5, <1>6, <1>7, <1>8, <1>9, <1>10, <1>11, <1>12, <1>13, <1>14
     DEF Next, Connect, Listen, Aside

\* And where each process is: which driver can be there, and with which rows.
LEMMA PlacesKept == ASSUME IndInv, Next PROVE (\A q \in Procs : DriverAt(q) /\ RowsAt(q))'
<1> USE DEF IndInv, TypeOK, Processes, DriverAt, RowsAt, Nats, Unconnected, Written, Rows, At, driver
<1> DEFINE Placed == \A q \in Procs : DriverAt(q) /\ RowsAt(q)
<1>1. ASSUME NEW p \in Procs, Launch(p) PROVE Placed'
  BY <1>1 DEF Launch, Down, table, disk, history
<1>2. ASSUME NEW p \in Procs, NewFails(p) PROVE Placed'
  BY <1>2 DEF NewFails, Exit, Down, Untouched, table, disk, history
<1>3. ASSUME NEW p \in Procs, NewPgsql(p) PROVE Placed'
  BY <1>3 DEF NewPgsql, News, Untouched, table, disk, history
<1>4. ASSUME NEW p \in Procs, NewMysql(p) PROVE Placed'
  BY <1>4 DEF NewMysql, News, Go, Panic, Untouched, table, disk, history
<1>5. ASSUME NEW p \in Procs, NewVariant(p) PROVE Placed'
  BY <1>5 DEF NewVariant, News, Go, Panic, Untouched, table, disk, history
<1>6. ASSUME NEW p \in Procs, setup(p) PROVE Placed'
  BY <1>6 DEF setup, Exit, Down, Go, Untouched, table, disk, history
<1>7. ASSUME NEW p \in Procs, migrate(p) \/ migrateSkips(p) PROVE Placed'
  BY <1>7, SMTT(40) DEF migrate, migrateSkips, Exit, Down, Go, Untouched, table, disk, history
<1>8. ASSUME NEW p \in Procs, migrateFails(p) PROVE Placed'
  BY <1>8 DEF migrateFails, Exit, Down, table, disk, history
<1>9. ASSUME NEW p \in Procs, migrateEnds(p) PROVE Placed'
  BY <1>9 DEF migrateEnds, Go, Untouched, table, disk, history
<1>10. ASSUME NEW p \in Procs, NEW r \in OldRows, migrateRow(p, r) PROVE Placed'
  BY <1>10 DEF migrateRow, Exit, Down, table, disk, history
<1>11. ASSUME NEW p \in Procs, NewNats(p) PROVE Placed'
  BY <1>11 DEF NewNats, News, Go, Untouched, table, disk, history
<1>12. ASSUME NEW p \in Procs, StartNats(p) PROVE Placed'
  BY <1>12 DEF StartNats, Go, Untouched, table, disk, history
<1>13. ASSUME NEW p \in Procs, NEW h \in Histories, CreateBucket(p, h) PROVE Placed'
  BY <1>13, SMTT(40) DEF CreateBucket, Exit, Down, Go, table, disk, history
<1>14. ASSUME NEW p \in Procs, StartUnconnected(p) PROVE Placed'
  BY <1>14 DEF StartUnconnected, StartsSql, Panic, Go, Untouched, table, disk, history
<1>15. ASSUME NEW p \in Procs, compactStart(p) PROVE Placed'
  BY <1>15, SMTT(40) DEF compactStart, StartsSql, Appends, Send, Go, table, disk, history, OneCompactKey
<1>16. ASSUME NEW p \in Procs, compactStartFails(p) PROVE Placed'
  BY <1>16 DEF compactStartFails, StartsSql, Exit, Down, Untouched, table, disk, history
<1>17. ASSUME NEW p \in Procs, Deadline(p) PROVE Placed'
  BY <1>17 DEF Deadline, Waiting, Exit, Down, Abandon, Two, table, disk, history
<1>18. ASSUME NEW p \in Procs, NEW r \in Rows, Answered(p, r) PROVE Placed'
  BY <1>18 DEF Answered, Waiting, Go, Untouched, table, disk, history
<1>19. ASSUME NEW p \in Procs, CreateHealth(p) PROVE Placed'
  BY <1>19 DEF CreateHealth, Send, Go, Untouched, table, disk, history
<1>20. ASSUME NEW p \in Procs, CreateHealthFails(p) PROVE Placed'
  BY <1>20 DEF CreateHealthFails, Waiting, Send, Abandon, Two, table, disk, history
<1>21. ASSUME NEW p \in Procs, ListenFails(p) PROVE Placed'
  BY <1>21 DEF ListenFails, Exit, Down, Untouched, table, disk, history
<1>22. ASSUME NEW p \in Procs, ListenTcp(p) PROVE Placed'
  BY <1>22 DEF ListenTcp, Go, table, disk, history
<1>23. ASSUME NEW p \in Procs, RemoveSocket(p) PROVE Placed'
  BY <1>23 DEF RemoveSocket, Go, table, disk, history
<1>24. ASSUME NEW p \in Procs, ListenUnix(p) PROVE Placed'
  BY <1>24 DEF ListenUnix, Go, Exit, Down, table, disk, history
<1>25. ASSUME NEW p \in Procs, Chmod(p) PROVE Placed'
  BY <1>25 DEF Chmod, Go, Exit, Down, Untouched, table, disk, history
<1>26. ASSUME NEW p \in Procs, ReadyForConnections(p) PROVE Placed'
  BY <1>26 DEF ReadyForConnections, Go, Untouched, table, disk, history
<1>27. ASSUME NEW p \in Procs, Ends(p) PROVE Placed'
  BY <1>27 DEF Ends, Down, Abandon, Two, table, disk, history
<1>28. ASSUME NEW p \in Procs, PublishFor(p) PROVE Placed'
  BY <1>28 DEF PublishFor, RequestPublish, Two, table, disk, history
<1>29. ASSUME NEW r \in Rows, PublishLate(r) PROVE Placed'
  BY <1>29 DEF PublishLate, RequestPublish, Two, disk, history
<1>30. ASSUME WriterDies PROVE Placed'
  BY <1>30 DEF WriterDies, Two, disk, history
<1>31. ASSUME Republish PROVE Placed'
  BY <1>31 DEF Republish, Two, disk, history
<1> HIDE DEF IndInv, TypeOK, Processes, DriverAt, RowsAt, Nats, Unconnected, Written, At, driver
<1> QED
  BY <1>1, <1>2, <1>3, <1>4, <1>5, <1>6, <1>7, <1>8, <1>9, <1>10, <1>11, <1>12, <1>13, <1>14,
     <1>15, <1>16, <1>17, <1>18, <1>19, <1>20, <1>21, <1>22, <1>23, <1>24, <1>25, <1>26, <1>27,
     <1>28, <1>29, <1>30, <1>31
     DEF Next, Connect, Listen

-----------------------------------------------------------------------------
(* Theorems.                                                                *)

\* At first no process runs and no row is written.
LEMMA InitIndInv == Init => IndInv
<1> SUFFICES ASSUME Init PROVE IndInv
  OBVIOUS
<1>1. \A p \in Procs : proc[p] = Down
  BY DEF Init
<1>2. TypeOK
  <2>1. Down \in Processes
    BY DEF Down, Processes, Pcs, Ended
  <2>2. proc \in [Procs -> Processes] /\ endpoint \in [Procs -> Endpoints] /\ starts \in 0..MaxStarts
    BY <2>1, StartupAssumption DEF Init
  <2>3. seen \in [Rows -> 0..2] /\ hidden \in [Rows -> 0..2] /\ late \in [Rows -> 0..2]
    BY DEF Init
  <2> QED
    BY <2>2, <2>3 DEF Init, TypeOK
<1>3. OneCompactKey /\ Migration
  BY <1>1 DEF Init, OneCompactKey, Migration, Down, At, Rows
<1>4. \A p \in Procs : DriverAt(p) /\ RowsAt(p)
  BY <1>1 DEF DriverAt, RowsAt, Down
<1> QED
  BY <1>2, <1>3, <1>4 DEF IndInv

\* Every step keeps the invariant.
LEMMA NextIndInv == IndInv /\ [Next]_vars => IndInv'
<1> SUFFICES ASSUME IndInv, [Next]_vars PROVE IndInv'
  OBVIOUS
<1>1. CASE Next
  BY <1>1, TypesKept, CompactKept, MigrationKept, PlacesKept DEF IndInv
<1>2. CASE UNCHANGED vars
  BY <1>2 DEF vars, table, disk, net, history, IndInv, TypeOK, OneCompactKey, Migration, DriverAt,
              RowsAt, Written, At, driver
<1> QED
  BY <1>1, <1>2

\* The invariant holds in every state of every behaviour.
LEMMA AlwaysIndInv == Spec => []IndInv
<1> QED
  BY InitIndInv, NextIndInv, PTL DEF Spec

\* Types.
THEOREM TypeCorrect == Spec => []TypeOK
<1>1. IndInv => TypeOK
  BY DEF IndInv
<1> QED
  BY AlwaysIndInv, <1>1, PTL

\* A start on the DDS database panics only after two starts overlapped at the
\* write of compact_rev_key, or one fell into a time when the row was hidden.
THEOREM PanicNeedsOverlap == Spec => []PanicsOnlyAfterOverlap
<1>1. IndInv => PanicsOnlyAfterOverlap
  BY DEF IndInv, DriverAt, Unconnected, PanicsOnlyAfterOverlap, At
<1> QED
  BY AlwaysIndInv, <1>1, PTL

\* Whoever serves from the DDS database has both rows there, but for writes that
\* the database lost and the one of the health key that is tolerated.
THEOREM RowsBeforeServing == Spec => []ServesWithItsRows
<1>1. IndInv => ServesWithItsRows
  BY DEF IndInv, RowsAt, Written, Rows, ServesWithItsRows, Serves, At
<1> QED
  BY AlwaysIndInv, <1>1, PTL

\* dqlite goes on with all of the old rows, or with a migration under way or
\* broken off, or with none of them when a start could not read the file.
THEOREM MigrationIsWhole == Spec => []MigratedWhole
<1>1. IndInv => MigratedWhole
  BY DEF IndInv, TypeOK, Migration, MigratedWhole
<1> QED
  BY AlwaysIndInv, <1>1, PTL
=============================================================================
