----------------------------- MODULE JobMapping -----------------------------
(***************************************************************************)
(* The workload identity metrics: a directory of files that the scheduler  *)
(* maintains, one per GPU or GPU instance, with the jobs that run there.   *)
(* Each scrape reads the directory, then file after file, then asks DCGM   *)
(* for its devices, and emits one series per GPU and job.  The scheduler   *)
(* and DCGM go on meanwhile.                                               *)
(*                                                                         *)
(* External: "Mapping writers are expected to use locking and atomic       *)
(* replacement" (reader.go:88-89), so a file changes in one step; devices  *)
(* have different UUIDs.                                                   *)
(***************************************************************************)
EXTENDS Naturals, Sequences, FiniteSets, Functions

CONSTANTS
  Filenames,    \* [kind, gpu, instance] for each name that may be there
  Contents,     \* [type, lines] of the files the scheduler writes
  DeviceMaps,   \* what DCGM may answer: functions from indexes to UUIDs
  Blank,        \* an empty line
  BadLine,      \* a line that is too long for a job or not UTF-8
  HugeLine,     \* a line that the scanner's buffer does not hold
  maxJobIDsPerMapping,
  MaxChanges    \* bound on the changes of the files and devices

ASSUME ChangesBounded == MaxChanges \in Nat

ASSUME FilesAreFinite == \A c \in Contents : IsFiniteSet(Range(c.lines))

\* A name is the GPU and the instance, in the directory's own spelling.
ASSUME NamesDiffer ==
  \A f, g \in Filenames :
    f.kind = g.kind /\ f.gpu = g.gpu /\ f.instance = g.instance => f = g

VARIABLES
  dir,         \* dir[f]: the file of that name
  readable,    \* whether the directory can be opened and read
  devices,     \* DCGM's devices
  changes,     \* changes so far
  scrape,      \* the locals of Collect and Read
  series,      \* what the last scrape emitted, by mapping and job
  scraped      \* history of that scrape; see Watch

jobVars == <<dir, readable, devices, changes, scrape, series, scraped>>

Absent == [type |-> "absent", lines |-> <<>>]

NoScrape == [pc |-> "idle", todo |-> {}, mappings |-> <<>>]

NoSeries == [p \in {} |-> ""]

JobInit(files, devs) ==
  /\ dir = files
  /\ readable = TRUE
  /\ devices = devs
  /\ changes = 0
  /\ scrape = NoScrape
  /\ series = NoSeries
  /\ scraped = [some |-> {}, all |-> {}, devices |-> devs]

\* The process with the collector is gone.
JobsForgotten ==
  /\ scrape' = NoScrape
  /\ series' = NoSeries
  /\ scraped' = [some |-> {}, all |-> {}, devices |-> devices]
  /\ UNCHANGED <<dir, readable, devices, changes>>

-----------------------------------------------------------------------------
(* The reader *)

\* The name of a GPU of the configured kind, and a number for an instance.
parseMappingFilename(f, kind) == f.kind = kind /\ f.instance # "malformed"

JobIDs(file) == {l \in Range(file.lines) : l \notin {Blank, BadLine, HugeLine}}

\* The file cannot be opened, is not a regular one, is too large, has a line
\* that ends the scanner with an error, or names too many jobs.
Unusable(file) ==
  \/ file.type # "file"
  \/ HugeLine \in Range(file.lines)
  \/ Cardinality(JobIDs(file)) > maxJobIDsPerMapping

\* Mutant: repeated lines are kept.
readJobLines(file) ==
  IF Unusable(file)
    THEN <<>>
    ELSE SelectSeq(file.lines, LAMBDA l : l \in JobIDs(file))

\* The jobs in a file, each once and in a fixed order.
readJobIDs(file) ==
  LET ids == JobIDs(file) IN
  IF Unusable(file)
    THEN <<>>
    ELSE CHOOSE list \in Injection(1..Cardinality(ids), ids) : TRUE

\* The pairs of a file and a job in the directory, for a reader of that kind.
Listed(d, kind) ==
  UNION {{<<f, j>> : j \in Range(readJobIDs(d[f]))} :
           f \in {g \in Filenames : parseMappingFilename(g, kind)}}

\* History: what is listed at some time and at all times of a scrape (nothing,
\* if the directory cannot be opened), and the devices at its end.
Watch(kind) ==
  scraped' =
    LET now == Listed(dir', kind) IN
    CASE scrape.pc = "idle" /\ scrape'.pc # "idle" ->
           [some |-> now, all |-> IF readable THEN now ELSE {},
            devices |-> devices]
      [] scrape.pc # "idle" ->
           [some |-> scraped.some \cup now, all |-> scraped.all \cap now,
            devices |-> devices]
      [] OTHER -> scraped

-----------------------------------------------------------------------------
(* Collect *)

\* Mutant: files that were read once are not read again.
ReadDirectoryOnce(kind) ==
  /\ scrape.pc = "idle" /\ series = NoSeries
  /\ scrape' = [pc |-> "read",
                todo |-> IF ~readable THEN {}
                         ELSE {f \in Filenames :
                                 /\ dir[f].type \notin {"absent", "symlink"}
                                 /\ parseMappingFilename(f, kind)},
                mappings |-> <<>>]
  /\ UNCHANGED <<dir, readable, devices, changes, series>>

\* The directory is opened and read.  Links are skipped, and names of no GPU.
ReadDirectory(kind) ==
  /\ scrape.pc = "idle"
  /\ scrape' = [pc |-> "read",
                todo |-> IF ~readable THEN {}
                         ELSE {f \in Filenames :
                                 /\ dir[f].type \notin {"absent", "symlink"}
                                 /\ parseMappingFilename(f, kind)},
                mappings |-> <<>>]
  /\ UNCHANGED <<dir, readable, devices, changes, series>>

\* Mutant: a file that cannot be used ends the reading.
ReadFileOrStop ==
  /\ scrape.pc = "read"
  /\ \E f \in scrape.todo :
       LET jobs == readJobIDs(dir[f]) IN
       scrape' = IF jobs = <<>>
                   THEN [scrape EXCEPT !.todo = {}, !.mappings = <<>>]
                   ELSE [scrape EXCEPT !.todo = @ \ {f},
                           !.mappings = Append(@, [file |-> f, jobs |-> jobs])]
  /\ UNCHANGED <<dir, readable, devices, changes, series>>

\* One entry, in whatever order the directory has them.
ReadFile ==
  /\ scrape.pc = "read"
  /\ \E f \in scrape.todo :
       LET jobs == readJobIDs(dir[f]) IN
       scrape' = [scrape EXCEPT !.todo = @ \ {f},
                    !.mappings = IF jobs = <<>> THEN @
                                 ELSE Append(@, [file |-> f, jobs |-> jobs])]
  /\ UNCHANGED <<dir, readable, devices, changes, series>>

\* The index and UUID of the device a file name means, if DCGM has it.
resolveGPU(f, kind, devs) ==
  {i \in DOMAIN devs :
     devs[i] # "" /\ IF kind = "uuid" THEN devs[i] = f.gpu ELSE i = f.gpu}

\* The labels of a job of a file whose GPU is known.
SeriesOf(f, job, kind, devs) ==
  LET i == CHOOSE i \in resolveGPU(f, kind, devs) : TRUE
  IN  [gpu |-> i, uuid |-> devs[i], instance |-> f.instance, job |-> job]

\* The mappings of GPUs that are known, each with its jobs.
Emitted(mappings, kind, devs) ==
  UNION {{<<k, j>> : j \in DOMAIN mappings[k].jobs} :
           k \in {k \in DOMAIN mappings : resolveGPU(mappings[k].file, kind, devs) # {}}}

\* The devices are asked for after the files were read.
Emit(kind) ==
  /\ scrape.pc = "read" /\ scrape.todo = {}
  /\ series' = [p \in Emitted(scrape.mappings, kind, devices) |->
                  LET m == scrape.mappings[p[1]]
                  IN  SeriesOf(m.file, m.jobs[p[2]], kind, devices)]
  /\ scrape' = NoScrape
  /\ UNCHANGED <<dir, readable, devices, changes>>

ScrapeStep(kind) ==
  (ReadDirectory(kind) \/ ReadFile \/ Emit(kind)) /\ Watch(kind)

-----------------------------------------------------------------------------
(* The scheduler and DCGM *)

\* A file is replaced or removed, the directory goes away or comes back, or
\* DCGM has other devices.
JobsChange(kind) ==
  /\ changes < MaxChanges
  /\ changes' = changes + 1
  /\ \/ /\ \E f \in Filenames, c \in Contents \cup {Absent} :
             dir' = [dir EXCEPT ![f] = c]
        /\ UNCHANGED <<readable, devices>>
     \/ readable' = ~readable /\ UNCHANGED <<dir, devices>>
     \/ devices' \in DeviceMaps /\ UNCHANGED <<dir, readable>>
  /\ UNCHANGED <<scrape, series>>
  /\ Watch(kind)

-----------------------------------------------------------------------------

\* The series of pairs of a file and a job.
AllSeries(pairs, kind, devs) ==
  {SeriesOf(p[1], p[2], kind, devs) :
     p \in {q \in pairs : resolveGPU(q[1], kind, devs) # {}}}

(***************************************************************************)
(* A scrape emits no series twice, which would make the registry's Gather  *)
(* fail for all metrics: the lines of a file are made unique, and no two   *)
(* files that are read stand for the same GPU and instance.                *)
(***************************************************************************)
SeriesAreUnique ==
  \A p, q \in DOMAIN series : series[p] = series[q] => p = q

\* A scrape that runs while files are replaced emits only jobs that were
\* listed at some time while it ran, and every job that was listed all along
\* for a GPU that DCGM has.
ConsistentEnough(kind) ==
  scrape.pc = "idle" =>
    /\ Range(series) \subseteq AllSeries(scraped.some, kind, scraped.devices)
    /\ AllSeries(scraped.all, kind, scraped.devices) \subseteq Range(series)

\* The series are those of the directory and the devices as they are.
UpToDate(kind) ==
  Range(series) = IF readable THEN AllSeries(Listed(dir, kind), kind, devices)
                  ELSE {}
=============================================================================
