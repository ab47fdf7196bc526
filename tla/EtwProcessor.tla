---------------------------- MODULE EtwProcessor ----------------------------
(***************************************************************************)
(* EtwProcessor (profile/native_etw.rs): the pass over a trace that        *)
(* attributes file operations, their completions, their paths and their    *)
(* stacks to one target process.  It sees records only, in the order of    *)
(* their timestamps.  The kernel that writes them is modelled beside it:   *)
(* it reuses the addresses of request packets, file objects and images,    *)
(* for the target and for every other process, and a trace may lose        *)
(* records.                                                                *)
(*                                                                         *)
(* A row stands for an entry of lifecycle_events or file_io_events.  What  *)
(* the kernel knew about the row is kept in it for the properties and read *)
(* by no action of the processor.                                          *)
(***************************************************************************)
EXTENDS Naturals, Sequences, FiniteSets, SequencesExt, FiniteSetsExt

CONSTANTS
    Irps,          \* addresses of request packets
    Objects,       \* addresses of file objects
    Keys,          \* file keys: addresses that all opens of a file share
    Paths,
    Images,        \* images loaded at the one base address
    Threads,       \* threads of the target, and of other processes
    Target, Other, \* process ids
    None,
    MaxRecords,    \* bound: records of a trace, per workload
    MaxLossy,      \* bound: records of a trace that loses some, per workload
    MaxTime,       \* bound: timestamps
    MaxLost,       \* bound: records the trace loses
    MaxNamed,      \* bound: records that may name a file after its open
    MAX_PENDING_STACK_TIMESTAMPS,
    MAX_PENDING_STACKS_PER_TIMESTAMP

Pointers == Objects \cup Keys

ASSUME NoneAssumption == None \notin Irps \cup Pointers \cup Paths \cup Images
ASSUME KeysAssumption == Objects \cap Keys = {}
ASSUME PidAssumption == Target # Other
ASSUME ThreadsAssumption == Threads # {}
ASSUME BoundAssumption ==
    /\ MaxRecords \in [{"files", "stacks"} -> Nat]
    /\ MaxLossy \in [{"files", "stacks"} -> Nat]
    /\ {MaxTime, MaxLost, MaxNamed} \subseteq Nat
    /\ {MAX_PENDING_STACK_TIMESTAMPS, MAX_PENDING_STACKS_PER_TIMESTAMP}
           \subseteq Nat \ {0}

VARIABLES
    \* the kernel
    workload, clock, written, lost, named,
    io,            \* the operation a request packet serves
    file,          \* the open file an object stands for
    image,         \* the image at the base address and when it came
    seen,          \* the load of that image is in the trace
    \* the processor
    event_sets,    \* the settings: which rows are asked for
    rows,
    pending_file_irps, ignored_file_irps,
    file_paths_by_pointer,
    matched_op_end, unmatched_op_end, reused_irp,
    modules,
    pending_stacks,
    stack_walks, matched_stack_walks, dropped_stack_walks

kernelVars == <<workload, clock, written, lost, named, io, file, image, seen>>
ioVars == <<pending_file_irps, ignored_file_irps, file_paths_by_pointer,
            matched_op_end, unmatched_op_end, reused_irp>>
stackVars == <<pending_stacks, stack_walks, matched_stack_walks,
               dropped_stack_walks>>
procVars == <<rows, modules, ioVars, stackVars>>
etwVars == <<kernelVars, event_sets, procVars>>

Times == 0..MaxTime
NoIo == [op |-> 0, kind |-> "none", pid |-> Other, object |-> None]
NoFile == [path |-> None, pid |-> Other, key |-> None, state |-> "free"]
NoImage == [name |-> None, since |-> 0]

EtwInit ==
    /\ workload \in {"files", "stacks"}
    /\ clock = 0 /\ written = 0 /\ lost = 0 /\ named = 0
    /\ io = [i \in Irps |-> NoIo]
    /\ file = [o \in Objects |-> NoFile]
    /\ image = NoImage
    /\ seen = FALSE
    /\ event_sets \in SUBSET {"process", "file_io"} \ {{}}
    /\ rows = <<>>
    /\ pending_file_irps = [i \in Irps |-> 0]
    /\ ignored_file_irps = {}
    /\ file_paths_by_pointer = [q \in Pointers |-> None]
    /\ matched_op_end = 0 /\ unmatched_op_end = 0 /\ reused_irp = 0
    /\ modules = <<>>
    /\ pending_stacks = [t \in Times |-> <<>>]
    /\ stack_walks = 0 /\ matched_stack_walks = 0 /\ dropped_stack_walks = 0

-----------------------------------------------------------------------------
(* Stacks: a stack carries the timestamp and thread of the record it belongs *)
(* to, and may come before that record.                                     *)

PendingTimes == {t \in Times : pending_stacks[t] # <<>>}
PendingBefore(ts) == {t \in PendingTimes : t < ts}

StacksAt(times) ==
    Cardinality(UNION {{t} \X DOMAIN pending_stacks[t] : t \in times})

\* A stack goes to a row of its timestamp: of its thread, or else of its
\* process.
attach_stack_walk_event(stack, table) ==
    \E k \in DOMAIN table :
        /\ table[k].ts = stack.ts
        /\ table[k].thread = stack.thread \/ stack.pid = Target

\* Mutant: old stacks are thrown away without being counted.
TakePendingStacksQuietly(ts, table) ==
    LET old == PendingBefore(ts)
        now == IF Len(table) = Len(rows) THEN {} ELSE {ts}
    IN  /\ pending_stacks' = [t \in Times |-> IF t \in old \cup now THEN <<>>
                                              ELSE pending_stacks[t]]
        /\ matched_stack_walks' = matched_stack_walks
               + (IF now = {} THEN 0 ELSE Len(pending_stacks[ts]))
        /\ UNCHANGED <<stack_walks, dropped_stack_walks>>

\* prune_pending_stacks_before(ts), and the stacks that waited for a row of
\* this timestamp when one was added.
TakePendingStacks(ts, table) ==
    LET old == PendingBefore(ts)
        now == IF Len(table) = Len(rows) THEN {} ELSE {ts}
        waited == {n \in DOMAIN pending_stacks[ts] :
                      attach_stack_walk_event(pending_stacks[ts][n], table)}
    IN  /\ pending_stacks' = [t \in Times |-> IF t \in old \cup now THEN <<>>
                                              ELSE pending_stacks[t]]
        /\ dropped_stack_walks' = dropped_stack_walks + StacksAt(old)
        /\ matched_stack_walks' =
               matched_stack_walks + (IF now = {} THEN 0 ELSE Cardinality(waited))
        /\ UNCHANGED stack_walks

cache_pending_stack_walk_event(stack) ==
    LET full == /\ pending_stacks[stack.ts] = <<>>
                /\ Cardinality(PendingTimes) >= MAX_PENDING_STACK_TIMESTAMPS
        oldest == IF full THEN {Min(PendingTimes)} ELSE {}
        crowded == Len(pending_stacks[stack.ts])
                       >= MAX_PENDING_STACKS_PER_TIMESTAMP
    IN  IF stack.pid # Target
        THEN /\ dropped_stack_walks' = dropped_stack_walks + 1
             /\ UNCHANGED pending_stacks
        ELSE /\ pending_stacks' =
                    [t \in Times |->
                        CASE t \in oldest -> <<>>
                          [] t = stack.ts /\ ~crowded ->
                                 Append(pending_stacks[t], stack)
                          [] OTHER -> pending_stacks[t]]
             /\ dropped_stack_walks' = dropped_stack_walks + StacksAt(oldest)
                                           + (IF crowded THEN 1 ELSE 0)

process_stack_walk_event(stack) ==
    /\ stack_walks' = stack_walks + 1
    /\ IF attach_stack_walk_event(stack, rows)
       THEN /\ matched_stack_walks' = matched_stack_walks + 1
            /\ UNCHANGED <<pending_stacks, dropped_stack_walks>>
       ELSE /\ cache_pending_stack_walk_event(stack)
            /\ UNCHANGED matched_stack_walks
    /\ UNCHANGED <<rows, modules, ioVars>>

-----------------------------------------------------------------------------
(* Images of the target. *)

Row(rec, path) ==
    [kind |-> rec.kind, ts |-> rec.ts, thread |-> rec.thread,
     irp |-> rec.irp, path |-> path, done |-> 0,
     op |-> rec.op, real_path |-> rec.real_path, real_image |-> rec.real_image]

record_module_load(rec) ==
    Append(modules, [name |-> rec.name, loaded_at |-> rec.ts,
                     unloaded_at |-> None])

\* The most recent load that is still open.
record_module_unload(rec) ==
    LET open == {k \in DOMAIN modules : modules[k].unloaded_at = None}
    IN  IF open = {} THEN modules
        ELSE [modules EXCEPT ![Max(open)].unloaded_at = rec.ts]

contains_at(m, ts) ==
    /\ ts >= m.loaded_at
    /\ m.unloaded_at # None => ts <= m.unloaded_at

\* Mutant: the first module that holds the address.
resolve_stack_address_first(ts) ==
    LET at == {k \in DOMAIN modules : contains_at(modules[k], ts)}
    IN  IF at = {} THEN None ELSE modules[Min(at)].name

\* Of the modules that held the address at that time, the one loaded last;
\* of equals the last in the list.
resolve_stack_address(ts) ==
    LET at == {k \in DOMAIN modules : contains_at(modules[k], ts)}
        best == {k \in at : \A j \in at :
                               modules[j].loaded_at <= modules[k].loaded_at}
    IN  IF at = {} THEN None ELSE modules[Max(best)].name

process_lifecycle_event(rec) ==
    IF rec.pid # Target THEN UNCHANGED procVars
    ELSE LET table == IF "process" \in event_sets
                      THEN Append(rows, Row(rec, None)) ELSE rows
         IN  /\ modules' =
                    CASE rec.kind = "image_load" -> record_module_load(rec)
                      [] rec.kind = "image_unload" -> record_module_unload(rec)
                      [] OTHER -> modules
             /\ rows' = table
             /\ TakePendingStacks(rec.ts, table)
             /\ UNCHANGED ioVars

-----------------------------------------------------------------------------
(* File operations of the target and the completions of their packets.      *)

file_io_event_matches_target(rec) ==
    \/ rec.pid = Target
    \/ /\ rec.kind = "op_end"
       /\ pending_file_irps[rec.irp] # 0 \/ rec.irp \in ignored_file_irps

\* Mutant: the packet keeps waiting after its completion was merged.
merge_and_keep(rec) ==
    LET k == pending_file_irps[rec.irp]
    IN  /\ IF k # 0
           THEN /\ rows' = [rows EXCEPT ![k].done = rec.op]
                /\ matched_op_end' = matched_op_end + 1
                /\ UNCHANGED <<ignored_file_irps, unmatched_op_end>>
           ELSE /\ ignored_file_irps' = ignored_file_irps \ {rec.irp}
                /\ unmatched_op_end' =
                       IF rec.irp \in ignored_file_irps
                       THEN unmatched_op_end ELSE unmatched_op_end + 1
                /\ UNCHANGED <<rows, matched_op_end>>
        /\ UNCHANGED <<pending_file_irps, file_paths_by_pointer, reused_irp>>

merge_file_io_completion(rec) ==
    LET k == pending_file_irps[rec.irp]
    IN  /\ IF k # 0
           THEN /\ pending_file_irps' = [pending_file_irps EXCEPT ![rec.irp] = 0]
                /\ rows' = [rows EXCEPT ![k].done = rec.op]
                /\ matched_op_end' = matched_op_end + 1
                /\ UNCHANGED <<ignored_file_irps, unmatched_op_end>>
           ELSE /\ ignored_file_irps' = ignored_file_irps \ {rec.irp}
                /\ unmatched_op_end' =
                       IF rec.irp \in ignored_file_irps
                       THEN unmatched_op_end ELSE unmatched_op_end + 1
                /\ UNCHANGED <<pending_file_irps, rows, matched_op_end>>
        /\ UNCHANGED <<file_paths_by_pointer, reused_irp>>

\* A record names a file by its object, by its key or by both.
PathsWith(cache, rec, path) ==
    [q \in Pointers |-> IF q \in {rec.object, rec.key} THEN path ELSE cache[q]]

remove_file_path(cache, rec) == PathsWith(cache, rec, None)

\* A close is not a row: its completion will be ignored.
ignore_file_io_close(rec) ==
    /\ reused_irp' = IF pending_file_irps[rec.irp] # 0 THEN reused_irp + 1
                                                       ELSE reused_irp
    /\ pending_file_irps' = [pending_file_irps EXCEPT ![rec.irp] = 0]
    /\ ignored_file_irps' = ignored_file_irps \cup {rec.irp}
    /\ file_paths_by_pointer' = remove_file_path(file_paths_by_pointer, rec)
    /\ UNCHANGED <<rows, matched_op_end, unmatched_op_end>>

\* Mutant: a path that is known already is kept.
cache_first_path(rec) ==
    IF rec.path = None \/ file_paths_by_pointer[rec.object] # None
    THEN file_paths_by_pointer
    ELSE PathsWith(file_paths_by_pointer, rec, rec.path)

\* Whatever record carries a path, an open or a later one.
cache_file_path(rec) ==
    IF rec.path = None THEN file_paths_by_pointer
    ELSE PathsWith(file_paths_by_pointer, rec, rec.path)

\* The path of the record itself, of its object, of its key.
resolve_file_path(cache, rec) ==
    CASE rec.path # None -> rec.path
      [] rec.path = None /\ cache[rec.object] # None -> cache[rec.object]
      [] OTHER -> IF rec.key \in Keys THEN cache[rec.key] ELSE None

\* Any other record is a row.  A packet that still waits for its completion
\* has been reused; the records that only name a file have no packet.
AddFileRow(rec) ==
    LET cache == cache_file_path(rec)
    IN  /\ rows' = Append(rows, Row(rec, resolve_file_path(cache, rec)))
        /\ pending_file_irps' =
               [i \in Irps |-> IF i = rec.irp THEN Len(rows) + 1
                                              ELSE pending_file_irps[i]]
        /\ reused_irp' =
               IF rec.irp \in Irps /\ pending_file_irps[rec.irp] # 0
               THEN reused_irp + 1 ELSE reused_irp
        /\ file_paths_by_pointer' =
               IF rec.kind = "cleanup" THEN remove_file_path(cache, rec)
                                       ELSE cache
        /\ UNCHANGED <<ignored_file_irps, matched_op_end, unmatched_op_end>>

process_file_io_event(rec) ==
    IF ~file_io_event_matches_target(rec)
    THEN UNCHANGED procVars
    ELSE /\ CASE rec.kind = "op_end" -> merge_file_io_completion(rec)
              [] rec.kind = "close"  -> ignore_file_io_close(rec)
              [] OTHER -> AddFileRow(rec)
         /\ TakePendingStacks(rec.ts, rows')
         /\ UNCHANGED modules

process_record(rec) ==
    CASE rec.kind = "stack_walk" ->
            process_stack_walk_event([ts |-> rec.of, pid |-> rec.pid,
                                      thread |-> rec.thread])
      [] rec.kind \in {"image_load", "image_unload", "lifecycle"} ->
            process_lifecycle_event(rec)
      [] OTHER ->
            IF "file_io" \in event_sets THEN process_file_io_event(rec)
                                        ELSE UNCHANGED procVars

-----------------------------------------------------------------------------
(* The kernel.  Two workloads are traced: one uses files, and there the      *)
(* times and threads of the records do not matter; the other has stacks.    *)
(* Time may stand still between two records.                                *)

\* A record of the trace: it reaches the processor or is lost.
Write(rec) ==
    /\ written < MaxRecords[workload]
    /\ written' = written + 1
    /\ named' = IF rec.kind \in {"dir", "name"} THEN named + 1 ELSE named
    /\ named' <= MaxNamed
    /\ clock' = rec.ts
    /\ \/ /\ process_record(rec)
          /\ UNCHANGED lost
          /\ seen' = (seen \/ rec.kind = "image_load")
       \/ /\ lost < MaxLost
          /\ lost' = lost + 1
          /\ seen' = (seen /\ rec.kind # "image_load")
          /\ UNCHANGED procVars
    /\ lost' > 0 => written' <= MaxLossy[workload]
    /\ UNCHANGED <<workload, event_sets>>

NextTime ==
    IF workload = "files" THEN {clock}
    ELSE {t \in {clock, clock + 1} : t <= MaxTime}

RunningThreads ==
    IF workload = "files" THEN {CHOOSE th \in Threads : TRUE} ELSE Threads

Record(kind, ts, pid, thread) ==
    [kind |-> kind, ts |-> ts, of |-> ts, pid |-> pid, thread |-> thread, irp |-> None,
     object |-> None, key |-> None, path |-> None, name |-> None, op |-> written + 1,
     real_path |-> None, real_image |-> IF seen THEN image.name ELSE None]

\* A process opens a file, uses an open one (its own or one it inherited),
\* cleans it up and closes it.  A use is any of the operations without a path
\* of their own (read, write, query_info...); "dir" stands for dir_enum and
\* dir_notify, which may carry one.  file[o].path is the last name the records
\* of its opener gave to this open of the file.
Operation(p, kind, i, o, key, path) ==
    /\ io[i] = NoIo
    /\ CASE kind = "create" ->
              /\ file[o] = NoFile
              /\ path # None
              /\ file' = [file EXCEPT ![o] = [path |-> path, pid |-> p,
                                              key |-> key, state |-> "open"]]
         [] kind = "read" ->
              /\ file[o].state # "free" /\ file[o].key = key
              /\ path = None
              /\ UNCHANGED file
         [] kind = "dir" ->
              /\ file[o].state = "open" /\ file[o].key = key
              /\ file' = [file EXCEPT ![o].path =
                             IF path # None /\ file[o].pid = p THEN path ELSE @]
         [] kind = "cleanup" ->
              /\ file[o].state = "open" /\ file[o].key = key
              /\ path = None
              /\ file' = [file EXCEPT ![o].state = "cleaned"]
         [] kind = "close" ->
              /\ file[o].state = "cleaned" /\ file[o].key = key
              /\ path = None
              /\ file' = [file EXCEPT ![o] = NoFile]
    /\ io' = [io EXCEPT ![i] = [op |-> written + 1, kind |-> kind, pid |-> p,
                                object |-> o]]

\* The record of a create is written before the file has a key.
FileOperation(p, kind, i, o, key, path) ==
    /\ workload = "files" \/ kind = "create"
    /\ Operation(p, kind, i, o, key, path)
    /\ \E ts \in NextTime, th \in RunningThreads :
           Write([Record(kind, ts, p, th) EXCEPT
                     !.irp = i, !.object = o, !.path = path,
                     !.key = IF kind = "create" THEN None ELSE key,
                     !.real_path = IF p = file'[o].pid /\ file[o].state # "cleaned"
                                   THEN file'[o].path ELSE None])
    /\ UNCHANGED image

\* file_name, file_create_name, file_delete_name and file_rundown: a record
\* without a packet gives a name to a pointer, in use or not.
NameFile(p, q, path) ==
    /\ workload = "files"
    /\ file' = [o \in Objects |->
                   IF o = q /\ file[o].state = "open" /\ file[o].pid = p
                   THEN [file[o] EXCEPT !.path = path] ELSE file[o]]
    /\ \E ts \in NextTime, th \in RunningThreads :
           Write([Record("name", ts, p, th) EXCEPT !.object = q, !.path = path])
    /\ UNCHANGED <<io, image>>

\* A packet completes, in the context of whatever process runs.  An open
\* that fails frees its object.
Complete(i, p) ==
    /\ workload = "files"
    /\ io[i] # NoIo
    /\ io' = [io EXCEPT ![i] = NoIo]
    /\ \/ UNCHANGED file
       \/ /\ io[i].kind = "create"
          /\ file' = [file EXCEPT ![io[i].object] = NoFile]
    /\ \E ts \in NextTime, th \in RunningThreads :
           Write([Record("op_end", ts, p, th) EXCEPT
                     !.irp = i, !.op = io[i].op])
    /\ UNCHANGED image

\* The target maps an image at the base address, which is free for a while
\* before the next one comes.
LoadImage(n) ==
    /\ workload = "stacks"
    /\ image.name = None
    /\ \E ts \in NextTime, th \in RunningThreads :
           /\ ts > image.since
           /\ image' = [name |-> n, since |-> ts]
           /\ Write([Record("image_load", ts, Target, th) EXCEPT
                        !.name = n, !.real_image = n])
    /\ UNCHANGED <<io, file>>

UnloadImage ==
    /\ workload = "stacks"
    /\ image.name # None
    /\ \E ts \in NextTime, th \in RunningThreads :
           /\ image' = [name |-> None, since |-> ts]
           /\ Write(Record("image_unload", ts, Target, th))
    /\ UNCHANGED <<io, file>>

\* Processes and threads start and end, of the target and of others.
Lifecycle(p) ==
    /\ workload = "stacks"
    /\ \E ts \in NextTime, th \in RunningThreads :
           Write(Record("lifecycle", ts, p, th))
    /\ UNCHANGED <<io, file, image>>

\* The stack of a record at or before this time.
WalkStack(p, ts) ==
    /\ workload = "stacks"
    /\ ts <= clock
    /\ \E th \in RunningThreads :
           Write([Record("stack_walk", clock, p, th) EXCEPT !.of = ts])
    /\ UNCHANGED <<io, file, image>>

EtwNext ==
    \/ \E p \in {Target, Other}, i \in Irps, o \in Objects, key \in Keys,
          kind \in {"create", "read", "dir", "cleanup", "close"},
          path \in Paths \cup {None} : FileOperation(p, kind, i, o, key, path)
    \/ \E p \in {Target, Other}, q \in Pointers, path \in Paths :
          NameFile(p, q, path)
    \/ \E i \in Irps, p \in {Target, Other} : Complete(i, p)
    \/ \E n \in Images : LoadImage(n)
    \/ UnloadImage
    \/ \E p \in {Target, Other} : Lifecycle(p)
    \/ \E p \in {Target, Other}, ts \in Times : WalkStack(p, ts)

EtwSpec == EtwInit /\ [][EtwNext]_etwVars

-----------------------------------------------------------------------------
EtwTypeOK ==
    /\ workload \in {"files", "stacks"} /\ seen \in BOOLEAN
    /\ written \in 0..MaxRecords[workload] /\ clock \in Times
    /\ lost \in 0..MaxLost /\ named \in 0..MaxNamed
    /\ \A k \in DOMAIN rows :
          /\ rows[k].ts \in Times /\ rows[k].thread \in Threads
          /\ rows[k].path \in Paths \cup {None}
          /\ rows[k].done \in 0..MaxRecords[workload]
          /\ rows[k].kind \in {"create", "read", "dir", "cleanup", "name",
                               "image_load", "image_unload", "lifecycle"}
    /\ pending_file_irps \in [Irps -> 0..Len(rows)]
    /\ ignored_file_irps \subseteq Irps
    /\ file_paths_by_pointer \in [Pointers -> Paths \cup {None}]
    /\ {matched_op_end, unmatched_op_end, reused_irp, stack_walks,
        matched_stack_walks, dropped_stack_walks} \subseteq 0..MaxRecords[workload]
    /\ \A t \in Times : \A s \in Range(pending_stacks[t]) : s.ts = t

\* Every row with a request packet is accounted for, whatever the trace lost:
\* its completion was merged, it still waits, or its packet was reused
\* (finish: incomplete_io_count).
IoAccounting ==
    Cardinality({k \in DOMAIN rows : rows[k].irp # None}) =
        matched_op_end + reused_irp
            + Cardinality({i \in Irps : pending_file_irps[i] # 0})

\* A trace that lost nothing gives every operation its own completion, and
\* none of another process that had the same packet later, although the
\* completions of all processes are let through (file_io_event_matches_target,
\* merge_file_io_completion, ignore_file_io_close).  What still waits is still
\* outstanding in the kernel: no operation missed its completion.
OwnCompletion ==
    lost = 0 =>
        /\ \A k \in DOMAIN rows : rows[k].done \in {0, rows[k].op}
        /\ \A i \in Irps : pending_file_irps[i] # 0 =>
              io[i].op = rows[pending_file_irps[i]].op

\* On a trace that lost nothing, an operation on a file the target opened
\* carries the last name the target's records gave to this open of the file:
\* the path it was opened with, unless a directory enumeration or notification
\* or a name record of this object gave another since, and never the name of
\* an earlier file at the same address, although opens fail, files are closed
\* by other processes, and keys are shared (cache_file_path, remove_file_path,
\* resolve_file_path).
PathIsReal ==
    lost = 0 => \A k \in DOMAIN rows :
        rows[k].real_path # None => rows[k].path = rows[k].real_path

\* Every stack record is accounted for: attached to a row, dropped and counted
\* in the warning, or waiting for its row.
StackAccounting ==
    stack_walks = matched_stack_walks + dropped_stack_walks
                      + StacksAt(PendingTimes)

\* Stacks that wait for a row that may never come stay within the limits.
PendingBounded ==
    /\ Cardinality(PendingTimes) <= MAX_PENDING_STACK_TIMESTAMPS
    /\ \A t \in Times :
          Len(pending_stacks[t]) <= MAX_PENDING_STACKS_PER_TIMESTAMP

\* The counters of the summary and the limits of the processor.
Accounting == EtwTypeOK /\ IoAccounting /\ StackAccounting /\ PendingBounded

\* An address is given to the image that was mapped at the time of the row,
\* also when the unload of an earlier image at the same base was lost.
FrameIsReal ==
    \A k \in DOMAIN rows :
        rows[k].real_image # None =>
            resolve_stack_address(rows[k].ts) = rows[k].real_image
=============================================================================
