------------------------- MODULE BringupPartsProofs -------------------------
(***************************************************************************)
(* What the parts that NodeBringup composes do each for itself: the checks *)
(* of a machine, the configuration, the environment file, the choice of    *)
(* components, the socket and the scrapes of the job files.                *)
(***************************************************************************)
EXTENDS Precheck, ComponentSelection, ServerSocket, JobMapping, FiniteSetTheorems, TLAPS

-----------------------------------------------------------------------------
(* JobMapping *)

\* A file names each job once.
LEMMA JobsAreDistinct ==
  ASSUME NEW file \in Contents \cup {Absent}
  PROVE  IsInjective(readJobIDs(file))
<1>1. IsInjective(<<>>)
  BY DEF IsInjective
<1>2. IsFiniteSet(Range(file.lines))
  <2>1. CASE file = Absent
    <3>1. Range(file.lines) = {}
      BY <2>1 DEF Absent, Range
    <3> QED
      BY <3>1, FS_EmptySet
  <2> QED
    BY <2>1, FilesAreFinite
<1>3. JobIDs(file) \in SUBSET Range(file.lines)
  BY DEF JobIDs
<1>4. IsFiniteSet(JobIDs(file))
  BY <1>2, <1>3, FS_Subset
<1>5. Injection(1..Cardinality(JobIDs(file)), JobIDs(file)) # {}
  BY <1>4, FS_CardinalityType DEF ExistsBijection, Bijection
<1>6. \A list \in Injection(1..Cardinality(JobIDs(file)), JobIDs(file)) : IsInjective(list)
  BY DEF Injection
<1> QED
  BY <1>1, <1>5, <1>6 DEF readJobIDs

\* What is listed are the jobs of the files that are looked at.
LEMMA ListedIs ==
  ASSUME NEW files, NEW kind, NEW p
  PROVE  p \in Listed(files, kind)
           <=> \E f \in Filenames : /\ parseMappingFilename(f, kind)
                                    /\ \E j \in Range(readJobIDs(files[f])) : p = <<f, j>>
  BY DEF Listed

Parsed(kind) == {f \in Filenames : parseMappingFilename(f, kind)}

JobLists == {readJobIDs(c) : c \in Contents \cup {Absent}}

(***************************************************************************)
(* A scrape under way: each file is read once, or still to be read; what   *)
(* was read was listed at the time; and what is listed all along was read, *)
(* or its file is still to come.                                           *)
(***************************************************************************)
Reads(kind, todo, mappings, some, all) ==
  /\ todo \subseteq Parsed(kind)
  /\ mappings \in Seq([file : Parsed(kind), jobs : JobLists])
  /\ \A k \in DOMAIN mappings :
       /\ mappings[k].file \notin todo
       /\ \A j \in DOMAIN mappings[k].jobs : <<mappings[k].file, mappings[k].jobs[j]>> \in some
  /\ \A k, l \in DOMAIN mappings : mappings[k].file = mappings[l].file => k = l
  /\ \A p \in all :
       \/ p[1] \in todo
       \/ \E k \in DOMAIN mappings :
            /\ mappings[k].file = p[1]
            /\ \E j \in DOMAIN mappings[k].jobs : mappings[k].jobs[j] = p[2]

JobInv(kind) ==
  /\ dir \in [Filenames -> Contents \cup {Absent}]
  /\ scrape = [pc |-> scrape.pc, todo |-> scrape.todo, mappings |-> scrape.mappings]
  /\ \/ scrape.pc = "idle"
     \/ /\ scrape.pc = "read"
        /\ Reads(kind, scrape.todo, scrape.mappings, scraped.some, scraped.all)
  /\ SeriesAreUnique
  /\ ConsistentEnough(kind)

\* Nothing was scraped yet, or by a process that is gone.
LEMMA NothingScraped ==
  /\ NoScrape.pc = "idle"
  /\ NoScrape = [pc |-> NoScrape.pc, todo |-> NoScrape.todo, mappings |-> NoScrape.mappings]
  /\ DOMAIN NoSeries = {} /\ Range(NoSeries) = {}
  /\ \A kind, devs : AllSeries({}, kind, devs) = {}
<1>1. /\ NoScrape.pc = "idle"
      /\ NoScrape = [pc |-> NoScrape.pc, todo |-> NoScrape.todo,
                     mappings |-> NoScrape.mappings]
  BY DEF NoScrape
<1>2. DOMAIN NoSeries = {} /\ Range(NoSeries) = {}
  BY DEF NoSeries, Range
<1>3. \A kind, devs : AllSeries({}, kind, devs) = {}
  BY DEF AllSeries
<1> QED
  BY <1>1, <1>2, <1>3

\* A process that ends, with what it scraped.
LEMMA ForgottenKeepsJobs ==
  ASSUME NEW kind, JobInv(kind), JobsForgotten
  PROVE  JobInv(kind)'
<1>1. /\ scrape' = NoScrape /\ series' = NoSeries /\ dir' = dir
      /\ scraped'.some = {} /\ scraped'.all = {}
  BY DEF JobsForgotten
<1> QED
  BY <1>1, NothingScraped DEF JobInv, SeriesAreUnique, ConsistentEnough

\* The history of a step within a scrape, and of one that begins it.
LEMMA WatchIs ==
  ASSUME NEW kind, Watch(kind)
  PROVE  /\ scrape.pc = "idle" /\ scrape'.pc # "idle" =>
              /\ scraped'.some = Listed(dir', kind)
              /\ scraped'.all = IF readable THEN Listed(dir', kind) ELSE {}
         /\ scrape.pc # "idle" =>
              /\ scraped'.some = scraped.some \cup Listed(dir', kind)
              /\ scraped'.all = scraped.all \cap Listed(dir', kind)
              /\ scraped'.devices = devices
         /\ scrape.pc = "idle" /\ scrape'.pc = "idle" => scraped' = scraped
  BY DEF Watch

\* A scrape begins with all files that are of use still to come.
LEMMA ReadDirectoryKeepsJobs ==
  ASSUME NEW kind, JobInv(kind), ReadDirectory(kind), Watch(kind)
  PROVE  JobInv(kind)'
<1>1. /\ scrape.pc = "idle" /\ UNCHANGED <<dir, series>>
      /\ scrape'.pc = "read" /\ scrape'.mappings = <<>>
      /\ scrape' = [pc |-> scrape'.pc, todo |-> scrape'.todo, mappings |-> scrape'.mappings]
      /\ scrape'.todo = IF ~readable THEN {}
                        ELSE {f \in Filenames : /\ dir[f].type \notin {"absent", "symlink"}
                                                /\ parseMappingFilename(f, kind)}
  BY DEF ReadDirectory
<1>2. scraped'.all = IF readable THEN Listed(dir, kind) ELSE {}
  BY <1>1, WatchIs
<1>3. \A p \in scraped'.all : p[1] \in scrape'.todo
  <2> SUFFICES ASSUME readable, NEW p \in Listed(dir, kind)
               PROVE  p[1] \in scrape'.todo
    BY <1>2
  <2>1. PICK f \in Filenames : /\ parseMappingFilename(f, kind)
                               /\ \E j \in Range(readJobIDs(dir[f])) : p = <<f, j>>
    BY ListedIs
  <2>2. dir[f].type = "file"
    BY <2>1 DEF readJobIDs, Unusable, Range
  <2> QED
    BY <1>1, <2>1, <2>2
<1>4. Reads(kind, scrape'.todo, scrape'.mappings, scraped'.some, scraped'.all)
  <2>1. scrape'.todo \subseteq Parsed(kind)
    BY <1>1 DEF Parsed
  <2>2. scrape'.mappings \in Seq([file : Parsed(kind), jobs : JobLists])
        /\ DOMAIN scrape'.mappings = {}
    BY <1>1
  <2> QED
    BY <1>3, <2>1, <2>2 DEF Reads
<1>5. ConsistentEnough(kind)'
  BY <1>1 DEF ConsistentEnough
<1> QED
  BY <1>1, <1>4, <1>5 DEF JobInv, SeriesAreUnique

\* The next file: its jobs are listed now, and those that are listed all along
\* are among them.
LEMMA ReadFileKeepsJobs ==
  ASSUME NEW kind, JobInv(kind), ReadFile, Watch(kind)
  PROVE  JobInv(kind)'
<1>1. PICK f \in scrape.todo :
        scrape' = [scrape EXCEPT !.todo = @ \ {f},
                     !.mappings = IF readJobIDs(dir[f]) = <<>> THEN @
                                  ELSE Append(@, [file |-> f, jobs |-> readJobIDs(dir[f])])]
  BY DEF ReadFile
<1> DEFINE jobs == readJobIDs(dir[f])
           m == [file |-> f, jobs |-> jobs]
           old == scrape.mappings
           new == scrape'.mappings
<1>2. /\ scrape.pc = "read" /\ UNCHANGED <<dir, series>>
      /\ Reads(kind, scrape.todo, old, scraped.some, scraped.all)
  BY DEF ReadFile, JobInv
<1>3. /\ scrape'.pc = "read" /\ scrape'.todo = scrape.todo \ {f}
      /\ new = IF jobs = <<>> THEN old ELSE Append(old, m)
      /\ scrape' = [pc |-> scrape'.pc, todo |-> scrape'.todo, mappings |-> new]
  BY <1>1, <1>2 DEF JobInv
<1>4. /\ scraped'.some = scraped.some \cup Listed(dir, kind)
      /\ scraped'.all = scraped.all \cap Listed(dir, kind)
  BY <1>2, WatchIs
<1>5. f \in Parsed(kind) /\ f \in Filenames /\ jobs \in JobLists
  BY <1>2 DEF Reads, Parsed, JobLists, JobInv
<1>6. \A j \in DOMAIN jobs : <<f, jobs[j]>> \in Listed(dir, kind)
  BY <1>5, ListedIs DEF Parsed, Range
<1>7. \A p \in Listed(dir, kind) : p[1] = f => \E j \in DOMAIN jobs : jobs[j] = p[2]
  BY ListedIs DEF Range
<1> HIDE DEF jobs
<1>8. Reads(kind, scrape'.todo, new, scraped'.some, scraped'.all)
  <2>1. CASE jobs = <<>>
    <3>1. \A p \in Listed(dir, kind) : p[1] # f
      BY <1>7, <2>1
    <3>2. new = old /\ scrape'.todo \subseteq scrape.todo
      BY <1>3, <2>1
    <3>3. \A p \in scraped'.all : p \in scraped.all /\ (p[1] \in scrape.todo => p[1] \in scrape'.todo)
      BY <1>3, <1>4, <3>1
    <3>4. scraped.some \subseteq scraped'.some
      BY <1>4
    <3> HIDE DEF old, new
    <3> QED
      BY <1>2, <3>2, <3>3, <3>4 DEF Reads
  <2>2. CASE jobs # <<>>
    <3> DEFINE n == Len(old) + 1
    <3>1. /\ old \in Seq([file : Parsed(kind), jobs : JobLists]) /\ Len(old) \in Nat
          /\ DOMAIN old = 1..Len(old)
          /\ m \in [file : Parsed(kind), jobs : JobLists]
      BY <1>2, <1>5 DEF Reads
    <3>2. /\ new \in Seq([file : Parsed(kind), jobs : JobLists])
          /\ DOMAIN new = DOMAIN old \cup {n} /\ n \notin DOMAIN old
          /\ new[n] = m /\ \A k \in DOMAIN old : new[k] = old[k]
      <4> HIDE DEF m
      <4> QED
        BY <1>3, <2>2, <3>1
    <3>3. new[n].file = f /\ new[n].jobs = jobs
      BY <3>2
    <3> HIDE DEF n, m, old, new
    <3>4. scrape'.todo \subseteq Parsed(kind)
      BY <1>2, <1>3 DEF Reads
    <3>5. \A k \in DOMAIN new :
            /\ new[k].file \notin scrape'.todo
            /\ \A j \in DOMAIN new[k].jobs : <<new[k].file, new[k].jobs[j]>> \in scraped'.some
      <4>1. scraped.some \subseteq scraped'.some /\ Listed(dir, kind) \subseteq scraped'.some
        BY <1>4
      <4>2. ASSUME NEW k \in DOMAIN old
            PROVE  /\ new[k].file \notin scrape'.todo
                   /\ \A j \in DOMAIN new[k].jobs :
                        <<new[k].file, new[k].jobs[j]>> \in scraped'.some
        BY <1>2, <1>3, <3>2, <4>1 DEF Reads
      <4>3. /\ new[n].file \notin scrape'.todo
            /\ \A j \in DOMAIN new[n].jobs : <<new[n].file, new[n].jobs[j]>> \in scraped'.some
        BY <1>3, <1>6, <3>3, <4>1
      <4> QED
        BY <3>2, <4>2, <4>3
    <3>6. \A k \in DOMAIN old : old[k].file # f
      BY <1>2 DEF Reads
    <3>7. \A k, l \in DOMAIN new : new[k].file = new[l].file => k = l
      BY <1>2, <3>2, <3>3, <3>6 DEF Reads
    <3>8. \A p \in scraped'.all :
            \/ p[1] \in scrape'.todo
            \/ \E k \in DOMAIN new : /\ new[k].file = p[1]
                                     /\ \E j \in DOMAIN new[k].jobs : new[k].jobs[j] = p[2]
      <4> SUFFICES ASSUME NEW p \in scraped'.all, p[1] \notin scrape'.todo
                   PROVE  \E k \in DOMAIN new :
                            /\ new[k].file = p[1]
                            /\ \E j \in DOMAIN new[k].jobs : new[k].jobs[j] = p[2]
        OBVIOUS
      <4>1. p \in scraped.all /\ p \in Listed(dir, kind)
        BY <1>4
      <4>2. CASE p[1] = f
        BY <1>7, <3>2, <3>3, <4>1, <4>2
      <4>3. CASE p[1] # f
        <5>1. PICK k \in DOMAIN old : /\ old[k].file = p[1]
                                      /\ \E j \in DOMAIN old[k].jobs : old[k].jobs[j] = p[2]
          BY <1>2, <1>3, <4>1, <4>3 DEF Reads
        <5> QED
          BY <3>2, <5>1
      <4> QED
        BY <4>2, <4>3
    <3> QED
      BY <3>2, <3>4, <3>5, <3>7, <3>8 DEF Reads
  <2> QED
    BY <2>1, <2>2
<1>9. ConsistentEnough(kind)'
  BY <1>3 DEF ConsistentEnough
<1> QED
  BY <1>2, <1>3, <1>8, <1>9 DEF JobInv, SeriesAreUnique

\* The labels tell the file and the job: the device leads back to the name.
LEMMA LabelsTell ==
  ASSUME NEW kind, NEW devs, NEW f \in Parsed(kind), NEW g \in Parsed(kind), NEW j, NEW l,
         resolveGPU(f, kind, devs) # {}, resolveGPU(g, kind, devs) # {},
         SeriesOf(f, j, kind, devs) = SeriesOf(g, l, kind, devs)
  PROVE  f = g /\ j = l
<1> DEFINE x == CHOOSE i \in resolveGPU(f, kind, devs) : TRUE
           y == CHOOSE i \in resolveGPU(g, kind, devs) : TRUE
<1>1. x \in resolveGPU(f, kind, devs) /\ y \in resolveGPU(g, kind, devs)
  OBVIOUS
<1>2. /\ SeriesOf(f, j, kind, devs)
           = [gpu |-> x, uuid |-> devs[x], instance |-> f.instance, job |-> j]
      /\ SeriesOf(g, l, kind, devs)
           = [gpu |-> y, uuid |-> devs[y], instance |-> g.instance, job |-> l]
  BY DEF SeriesOf
<1> HIDE DEF x, y
<1>3. x = y /\ f.instance = g.instance /\ j = l
  <2>1. \A a, b, c, d, e, v, w, z :
          [gpu |-> a, uuid |-> b, instance |-> c, job |-> d]
              = [gpu |-> e, uuid |-> v, instance |-> w, job |-> z]
            => a = e /\ c = w /\ d = z
    OBVIOUS
  <2>2. [gpu |-> x, uuid |-> devs[x], instance |-> f.instance, job |-> j]
          = [gpu |-> y, uuid |-> devs[y], instance |-> g.instance, job |-> l]
    BY <1>2, Zenon
  <2> QED
    BY <2>1, <2>2, Zenon
<1>4. f.gpu = g.gpu
  BY <1>1, <1>3 DEF resolveGPU
<1>5. f \in Filenames /\ g \in Filenames /\ f.kind = g.kind
  BY DEF Parsed, parseMappingFilename
<1> QED
  BY <1>3, <1>4, <1>5, NamesDiffer

\* What Emit makes of the mappings, pair by pair.
LEMMA EmittedIs ==
  ASSUME NEW mappings, NEW kind, NEW devs, NEW p
  PROVE  p \in Emitted(mappings, kind, devs)
           <=> \E k \in DOMAIN mappings :
                 /\ resolveGPU(mappings[k].file, kind, devs) # {}
                 /\ \E j \in DOMAIN mappings[k].jobs : p = <<k, j>>
  BY DEF Emitted

\* A scrape ends with one series for each job that was read for a known GPU.
LEMMA EmitKeepsJobs ==
  ASSUME NEW kind, JobInv(kind), Emit(kind), Watch(kind)
  PROVE  JobInv(kind)'
<1> DEFINE M == scrape.mappings
           E == Emitted(M, kind, devices)
           Label(k, j) == SeriesOf(M[k].file, M[k].jobs[j], kind, devices)
<1>1. /\ scrape.pc = "read" /\ scrape.todo = {} /\ scrape' = NoScrape /\ UNCHANGED dir
      /\ series' = [p \in E |-> Label(p[1], p[2])]
      /\ Reads(kind, {}, M, scraped.some, scraped.all)
  BY DEF Emit, JobInv
<1>2. /\ scraped.some \subseteq scraped'.some
      /\ scraped'.all \subseteq scraped.all
      /\ scraped'.devices = devices
  <2>1. scrape.pc # "idle"
    BY <1>1
  <2> QED
    BY <2>1, WatchIs
<1>3. \A k \in DOMAIN M : M[k].file \in Parsed(kind) /\ IsInjective(M[k].jobs)
  <2>1. \A k \in DOMAIN M : M[k].file \in Parsed(kind) /\ M[k].jobs \in JobLists
    <3>1. M \in Seq([file : Parsed(kind), jobs : JobLists])
      BY <1>1 DEF Reads
    <3> HIDE DEF M
    <3>2. \A S : \A s \in Seq(S) : \A k \in DOMAIN s : s[k] \in S
      OBVIOUS
    <3>3. \A k \in DOMAIN M : M[k] \in [file : Parsed(kind), jobs : JobLists]
      BY <3>1, <3>2, Zenon
    <3> QED
      BY <3>3
  <2> QED
    BY <2>1, JobsAreDistinct DEF JobLists
<1>4. \A p \in E : \E k \in DOMAIN M :
        /\ resolveGPU(M[k].file, kind, devices) # {}
        /\ \E j \in DOMAIN M[k].jobs : p = <<k, j>> /\ series'[p] = Label(k, j)
  <2> SUFFICES ASSUME NEW p \in E
               PROVE  \E k \in DOMAIN M :
                        /\ resolveGPU(M[k].file, kind, devices) # {}
                        /\ \E j \in DOMAIN M[k].jobs : p = <<k, j>> /\ series'[p] = Label(k, j)
    OBVIOUS
  <2>1. PICK k \in DOMAIN M : /\ resolveGPU(M[k].file, kind, devices) # {}
                              /\ \E j \in DOMAIN M[k].jobs : p = <<k, j>>
    BY EmittedIs
  <2>2. PICK j \in DOMAIN M[k].jobs : p = <<k, j>>
    BY <2>1
  <2>3. series'[p] = Label(p[1], p[2])
    BY <1>1
  <2>4. series'[p] = Label(k, j)
    BY <2>2, <2>3
  <2> QED
    BY <2>1, <2>2, <2>4
<1>5. DOMAIN series' = E
  BY <1>1
<1> HIDE DEF E, M, Label
<1>6. SeriesAreUnique'
  <2> SUFFICES ASSUME NEW p \in E, NEW q \in E, series'[p] = series'[q]
               PROVE  p = q
    BY <1>5 DEF SeriesAreUnique
  <2>1. PICK k \in DOMAIN M : /\ resolveGPU(M[k].file, kind, devices) # {}
                              /\ \E j \in DOMAIN M[k].jobs :
                                   p = <<k, j>> /\ series'[p] = Label(k, j)
    BY <1>4
  <2>2. PICK j \in DOMAIN M[k].jobs : p = <<k, j>> /\ series'[p] = Label(k, j)
    BY <2>1
  <2>3. PICK l \in DOMAIN M : /\ resolveGPU(M[l].file, kind, devices) # {}
                              /\ \E i \in DOMAIN M[l].jobs :
                                   q = <<l, i>> /\ series'[q] = Label(l, i)
    BY <1>4
  <2>4. PICK i \in DOMAIN M[l].jobs : q = <<l, i>> /\ series'[q] = Label(l, i)
    BY <2>3
  <2>5. M[k].file = M[l].file /\ M[k].jobs[j] = M[l].jobs[i]
    <3>1. SeriesOf(M[k].file, M[k].jobs[j], kind, devices)
            = SeriesOf(M[l].file, M[l].jobs[i], kind, devices)
      BY <2>2, <2>4 DEF Label
    <3>2. M[k].file \in Parsed(kind) /\ M[l].file \in Parsed(kind)
      BY <1>3
    <3> DEFINE f == M[k].file
               g == M[l].file
    <3>3. resolveGPU(f, kind, devices) # {} /\ resolveGPU(g, kind, devices) # {}
      BY <2>1, <2>3
    <3> HIDE DEF f, g
    <3> QED
      BY <3>1, <3>2, <3>3, LabelsTell DEF f, g
  <2>6. k = l
    BY <1>1, <2>5 DEF Reads
  <2>7. j = i
    BY <1>3, <2>5, <2>6 DEF IsInjective
  <2> QED
    BY <2>2, <2>4, <2>6, <2>7
<1>7. Range(series') \subseteq AllSeries(scraped'.some, kind, devices)
  <2> SUFFICES ASSUME NEW p \in E
               PROVE  series'[p] \in AllSeries(scraped'.some, kind, devices)
    BY <1>5 DEF Range
  <2>1. PICK k \in DOMAIN M : /\ resolveGPU(M[k].file, kind, devices) # {}
                              /\ \E j \in DOMAIN M[k].jobs :
                                   p = <<k, j>> /\ series'[p] = Label(k, j)
    BY <1>4
  <2>2. PICK j \in DOMAIN M[k].jobs : series'[p] = Label(k, j)
    BY <2>1
  <2>3. <<M[k].file, M[k].jobs[j]>> \in scraped'.some
    BY <1>1, <1>2 DEF Reads
  <2> DEFINE q == <<M[k].file, M[k].jobs[j]>>
  <2>4. /\ q \in {r \in scraped'.some : resolveGPU(r[1], kind, devices) # {}}
        /\ series'[p] = SeriesOf(q[1], q[2], kind, devices)
    BY <2>1, <2>2, <2>3 DEF Label
  <2> HIDE DEF q
  <2> QED
    BY <2>4 DEF AllSeries
<1>8. AllSeries(scraped'.all, kind, devices) \subseteq Range(series')
  <2> SUFFICES ASSUME NEW p \in scraped'.all, resolveGPU(p[1], kind, devices) # {}
               PROVE  SeriesOf(p[1], p[2], kind, devices) \in Range(series')
    BY DEF AllSeries
  <2>1. PICK k \in DOMAIN M : /\ M[k].file = p[1]
                              /\ \E j \in DOMAIN M[k].jobs : M[k].jobs[j] = p[2]
    BY <1>1, <1>2 DEF Reads
  <2>2. PICK j \in DOMAIN M[k].jobs : M[k].jobs[j] = p[2]
    BY <2>1
  <2>3. <<k, j>> \in E
    BY <2>1, <2>2, EmittedIs DEF E
  <2>4. series'[<<k, j>>] = Label(k, j)
    BY <1>1, <2>3
  <2> QED
    BY <1>5, <2>1, <2>2, <2>3, <2>4 DEF Range, Label
<1> QED
  BY <1>1, <1>2, <1>6, <1>7, <1>8, NothingScraped DEF JobInv, ConsistentEnough

\* Files and devices change at any time, also in the middle of a scrape.
LEMMA JobsChangeKeepsJobs ==
  ASSUME NEW kind, JobInv(kind), JobsChange(kind)
  PROVE  JobInv(kind)'
<1>1. UNCHANGED <<scrape, series>> /\ Watch(kind)
  BY DEF JobsChange
<1>2. dir' \in [Filenames -> Contents \cup {Absent}]
  BY DEF JobsChange, JobInv
<1>3. CASE scrape.pc = "idle"
  <2>1. scraped' = scraped
    BY <1>1, <1>3, WatchIs
  <2> QED
    BY <1>1, <1>2, <1>3, <2>1 DEF JobInv, SeriesAreUnique, ConsistentEnough
<1>4. CASE scrape.pc = "read"
  <2>1. Reads(kind, scrape.todo, scrape.mappings, scraped.some, scraped.all)
    BY <1>4 DEF JobInv
  <2>2. scraped.some \subseteq scraped'.some /\ scraped'.all \subseteq scraped.all
    BY <1>1, <1>4, WatchIs
  <2>3. Reads(kind, scrape.todo, scrape.mappings, scraped'.some, scraped'.all)
    BY <2>1, <2>2 DEF Reads
  <2> QED
    BY <1>1, <1>2, <1>4, <2>3 DEF JobInv, SeriesAreUnique, ConsistentEnough
<1> QED
  BY <1>3, <1>4 DEF JobInv

-----------------------------------------------------------------------------
(* Least and greatest elements *)

\* The order of the naturals is well-founded.
LEMMA LeastOfNaturals ==
  ASSUME NEW T \in SUBSET Nat, T # {}
  PROVE  \E x \in T : \A y \in T : x <= y
<1>1. PICK R : IsWellFoundedOn(R, Nat) /\ \A x, y \in Nat : y < x => <<y, x>> \in R
  <2>1. \A x, y \in Nat : y < x => <<y, x>> \in OpToRel(<, Nat)
    BY DEF OpToRel
  <2> QED
    BY <2>1, NatLessThanWellFounded, Zenon
<1>2. PICK x \in T : \A y \in T : ~(<<y, x>> \in R)
  BY <1>1, WFMin
<1>3. \A y \in T : ~(y < x)
  BY <1>1, <1>2, Zenon
<1>4. x \in Nat /\ \A y \in T : y \in Nat
  OBVIOUS
<1> QED
  BY <1>3, <1>4

\* The first of some positions.
LEMMA MinIsLeast ==
  ASSUME NEW T \in SUBSET Nat, T # {}
  PROVE  Min(T) \in T /\ \A y \in T : Min(T) <= y
  BY LeastOfNaturals DEF Min

\* The last of some positions: the first from the end.
LEMMA MaxIsGreatest ==
  ASSUME NEW n \in Nat, NEW T \in SUBSET (1..n), T # {}
  PROVE  Max(T) \in T /\ \A y \in T : y <= Max(T)
<1> DEFINE U == {n - x : x \in T}
<1>1. PICK u \in U : \A v \in U : u <= v
  <2>1. \A x \in T : n - x \in Nat
    OBVIOUS
  <2>2. U \in SUBSET Nat
    BY <2>1
  <2>3. U # {}
    OBVIOUS
  <2> QED
    BY <2>2, <2>3, LeastOfNaturals
<1>2. n - u \in T /\ \A y \in T : u <= n - y
  BY <1>1
<1>3. \E x \in T : \A y \in T : x >= y
  BY <1>1, <1>2
<1> QED
  BY <1>3 DEF Max

-----------------------------------------------------------------------------
(* Precheck *)

\* The part that differs first decides, as it does in the definition of the
\* releases since 4.2.3.
LEMMA VersionAtLeast ==
  ASSUME NEW v \in Seq(Nat), isVersionAtLeast(v, minimumDCGMVersion)
  PROVE  Since423(v)
<1> DEFINE min == minimumDCGMVersion
           shared == 1..(IF Len(v) < Len(min) THEN Len(v) ELSE Len(min))
           differ == {i \in shared : v[i] # min[i]}
<1>1. min[1] = 4 /\ min[2] = 2 /\ min[3] = 3 /\ Len(min) = 3
  BY DEF minimumDCGMVersion
<1>2. Len(v) \in Nat /\ DOMAIN v = 1..Len(v) /\ \A i \in 1..Len(v) : v[i] \in Nat
  OBVIOUS
<1>3. differ \in SUBSET Nat
  OBVIOUS
<1>4. CASE differ = {}
  <2>1. Len(v) >= 3
    BY <1>1, <1>4 DEF isVersionAtLeast
  <2>2. v[1] = 4 /\ v[2] = 2 /\ v[3] = 3
    <3>1. \A i \in shared : v[i] = min[i]
      BY <1>4
    <3>2. 1 \in shared /\ 2 \in shared /\ 3 \in shared
      BY <1>1, <1>2, <2>1
    <3> QED
      BY <1>1, <3>1, <3>2
  <2> QED
    BY <1>2, <2>1, <2>2 DEF Since423
<1>5. CASE differ # {}
  <2> DEFINE i == Min(differ)
  <2>1. i \in differ /\ \A j \in differ : i <= j
    BY <1>3, <1>5, MinIsLeast
  <2>2. v[i] > min[i]
    BY <1>5 DEF isVersionAtLeast
  <2> HIDE DEF i
  <2>3. i \in 1..3 /\ i <= Len(v) /\ \A j \in 1..i - 1 : v[j] = min[j]
    BY <1>1, <1>2, <2>1
  <2> HIDE DEF min
  <2> QED
    BY <1>1, <1>2, <2>2, <2>3 DEF Since423
<1> QED
  BY <1>4, <1>5

\* What passes the checks meets the requirements.
LEMMA PassingQualifies ==
  ASSUME NEW m, m.hostengines \in Seq({Unset, Invalid} \cup Seq(Nat)), PrecheckPasses(m)
  PROVE  Qualifies(m)
<1> DEFINE in == CollectInput(m)
           engines == m.hostengines
           telling == {i \in DOMAIN engines : engines[i] # Unset /\ extractVersion(engines[i])}
           first == Min(telling)
<1>1. /\ evaluateGPUPresence(in) /\ evaluateArchitecture(in)
      /\ evaluateDriver(in) /\ evaluateNVAttest(in) /\ evaluateDCGM(in)
  BY DEF PrecheckPasses, Evaluate
<1>2. /\ in.GPUInfo = (m.inventory = "gpus")
      /\ in.Architecture = IF m.inventory = "gpus" THEN m.architecture ELSE ""
      /\ in.GPUDriverVersion = IF m.inventory # "error" THEN m.driver ELSE <<>>
      /\ in.GPUHardwarePresent = (detectGPUHardware(m) = "gpus")
      /\ in.NVAttestPresent = m.nvattest
      /\ in.DCGMReachable = (DetectHostengineVersion(engines) # Unset)
      /\ in.DCGMVersion = IF DetectHostengineVersion(engines) = Unset THEN <<>>
                          ELSE DetectHostengineVersion(engines)
  BY DEF CollectInput
<1> HIDE DEF in
<1>3. detectGPUHardware(m) = "gpus" /\ "gpus" \in {m.inventory, m.pci}
  BY <1>1, <1>2 DEF evaluateGPUPresence, detectGPUHardware
<1>4. /\ m.inventory # "error" /\ m.driver \notin {Invalid, <<>>}
      /\ m.driver[1] >= minimumDriverMajorVersion
  BY <1>1, <1>2, <1>3 DEF evaluateDriver, parseDriverVersion
<1>5. m.inventory = "gpus" => m.architecture = "supported"
  BY <1>1, <1>2, <1>3, <1>4 DEF evaluateArchitecture
<1>6. m.nvattest
  BY <1>1, <1>2 DEF evaluateNVAttest
<1>7. telling # {} /\ DetectHostengineVersion(engines) = engines[first]
  BY <1>1, <1>2 DEF evaluateDCGM, DetectHostengineVersion
<1>8. first \in telling /\ \A j \in telling : first <= j
  <2>1. telling \in SUBSET Nat
    OBVIOUS
  <2> QED
    BY <1>7, <2>1, MinIsLeast
<1> HIDE DEF first
<1>9. /\ engines[first] \notin {Unset, Invalid, <<>>}
      /\ isVersionAtLeast(engines[first], minimumDCGMVersion)
  BY <1>1, <1>2, <1>7, <1>8 DEF evaluateDCGM, extractVersion
<1>10. Since423(engines[first])
  BY <1>8, <1>9, VersionAtLeast
<1>11. \A k \in 1..first - 1 : engines[k] \in {Unset, <<>>}
  BY <1>8 DEF extractVersion
<1> QED
  BY <1>3, <1>4, <1>5, <1>6, <1>8, <1>9, <1>10, <1>11 DEF Qualifies

-----------------------------------------------------------------------------
(* Configuration *)

\* The settings with a variable, one by one.
LEMMA EnvSettingsAre ==
  /\ DOMAIN ExporterDurations =
       {"DCGMExtendedInterval", "Interval", "MetricsLookback", "EventsLookback",
        "HealthCheckInterval", "DCGMHealthCheckInterval"}
  /\ DOMAIN LoopDurations = {"InventoryInterval", "AttestationInterval"}
  /\ LoopSettings = {"InventoryInterval", "AttestationInterval", "InventoryEnabled",
                     "AttestationEnabled"}
  /\ EnvSettings = LoopSettings \cup
       {"DCGMExtendedInterval", "Interval", "MetricsLookback", "EventsLookback",
        "HealthCheckInterval", "DCGMHealthCheckInterval", "DCGMFieldProfiles",
        "IncludeMetrics", "IncludeEvents", "IncludeMachineInfo",
        "IncludeComponentData", "RetryMaxAttempts", "CollectorEndpoint"}
<1>1. DOMAIN ExporterDurations =
       {"DCGMExtendedInterval", "Interval", "MetricsLookback", "EventsLookback",
        "HealthCheckInterval", "DCGMHealthCheckInterval"}
  BY DEF ExporterDurations
<1>2. DOMAIN LoopDurations = {"InventoryInterval", "AttestationInterval"}
  BY DEF LoopDurations
<1> QED
  BY <1>1, <1>2 DEF LoopSettings, EnvSettings, ExporterSettings

\* The default, of every setting, is one the environment can override.
LEMMA FromEnvIs ==
  ASSUME NEW env, NEW S \in SUBSET EnvSettings, NEW k \in DOMAIN Default
  PROVE  FromEnv(Default, env, S)[k] = IF k \in S THEN Given(env, k) ELSE Default[k]
  BY Zenon DEF FromEnv, Given

\* The settings, one by one.
LEMMA DefaultsAre ==
  DOMAIN Default =
    {"Address", "RetentionPeriod", "InventoryEnabled", "InventoryInterval",
     "AttestationEnabled", "AttestationInterval", "Interval", "Timeout",
     "IncludeMetrics", "IncludeEvents", "IncludeMachineInfo",
     "IncludeComponentData", "MetricsLookback", "EventsLookback",
     "HealthCheckInterval", "DCGMExtendedInterval", "DCGMFieldProfiles",
     "DCGMHealthCheckInterval", "RetryMaxAttempts", "CollectorEndpoint",
     "OfflineMode", "OutputPath", "Duration", "OutputFormat", "Components",
     "Source", "JobMappingDir", "GPUIdentifier", "EnableFaultInjection"}
  BY DEF Default

\* The settings that runCommand takes from flags, and those it sets for the
\* offline mode.
Flagged == {"Address", "RetentionPeriod", "Components", "Source", "JobMappingDir",
            "GPUIdentifier", "EnableFaultInjection"}

Offlined == {"OfflineMode", "OutputPath", "Duration", "OutputFormat",
             "RetryMaxAttempts", "CollectorEndpoint"}

\* Every setting with a variable has a default, and few of them change later.
LEMMA SettingsHaveDefaults ==
  /\ EnvSettings \cup Flagged \cup Offlined \subseteq DOMAIN Default
  /\ EnvSettings \cap Flagged = {} /\ Flagged \cap Offlined = {}
  /\ EnvSettings \cap Offlined = RequestSettings
<1>1. EnvSettings \cup Flagged \cup Offlined \subseteq DOMAIN Default
  BY DefaultsAre, EnvSettingsAre, Zenon DEF Flagged, Offlined
<1>2. EnvSettings \cap Flagged = {} /\ Flagged \cap Offlined = {}
  BY EnvSettingsAre DEF Flagged, Offlined
<1>3. EnvSettings \cap Offlined = RequestSettings
  BY EnvSettingsAre DEF Offlined, RequestSettings
<1> QED
  BY <1>1, <1>2, <1>3

\* What the flags make of a configuration.
FlagsTaken(with, base, flags) ==
  /\ DOMAIN with = DOMAIN base
  /\ \A k \in DOMAIN base \ Flagged : with[k] = base[k]
  /\ with.Address = IF flags.Address # "" THEN flags.Address ELSE base.Address
  /\ with.RetentionPeriod = IF flags.RetentionPeriod > 0 THEN flags.RetentionPeriod
                            ELSE base.RetentionPeriod
  /\ with.Components = flags.Components
  /\ with.EnableFaultInjection = flags.EnableFaultInjection
  /\ with.Source = flags.Source /\ with.JobMappingDir = flags.JobMappingDir
  /\ flags.JobMappingDir # "" => with.GPUIdentifier = flags.GPUIdentifier

\* The flags change their own settings only.
LEMMA WithFlagsIs ==
  ASSUME NEW base, Flagged \subseteq DOMAIN base, NEW flags,
         base.EnableFaultInjection = FALSE, flags.EnableFaultInjection \in BOOLEAN,
         base.Source = "", base.JobMappingDir = ""
  PROVE  FlagsTaken(WithFlags(base, flags), base, flags)
<1> DEFINE mid == [base EXCEPT
                     !.Address = IF flags.Address # "" THEN flags.Address ELSE @,
                     !.RetentionPeriod = IF flags.RetentionPeriod > 0
                                           THEN flags.RetentionPeriod ELSE @,
                     !.Components = flags.Components,
                     !.EnableFaultInjection = @ \/ flags.EnableFaultInjection]
           with == WithFlags(base, flags)
<1>1. with = configureWorkloadAttribution(mid, flags)
  BY DEF WithFlags
<1>2. /\ DOMAIN mid = DOMAIN base
      /\ \A k \in DOMAIN base \ Flagged : mid[k] = base[k]
      /\ mid.Address = IF flags.Address # "" THEN flags.Address ELSE base.Address
      /\ mid.RetentionPeriod = IF flags.RetentionPeriod > 0 THEN flags.RetentionPeriod
                               ELSE base.RetentionPeriod
      /\ mid.Components = flags.Components
      /\ mid.Source = "" /\ mid.JobMappingDir = ""
  BY DEF Flagged
<1>3. mid.EnableFaultInjection = flags.EnableFaultInjection
  BY DEF Flagged
<1> HIDE DEF mid, with
<1>4. CASE flags.Source = "" /\ flags.JobMappingDir = ""
  BY <1>1, <1>2, <1>3, <1>4 DEF configureWorkloadAttribution, FlagsTaken, with
<1>5. CASE ~(flags.Source = "" /\ flags.JobMappingDir = "")
  <2>1. with = [mid EXCEPT !.Source = flags.Source, !.JobMappingDir = flags.JobMappingDir,
                           !.GPUIdentifier = IF flags.JobMappingDir = "" THEN ""
                                             ELSE flags.GPUIdentifier]
    BY <1>1, <1>5 DEF configureWorkloadAttribution
  <2>2. /\ DOMAIN with = DOMAIN mid /\ Flagged \subseteq DOMAIN mid
        /\ \A k \in DOMAIN mid \ {"Source", "JobMappingDir", "GPUIdentifier"} :
             with[k] = mid[k]
    BY <1>2, <2>1
  <2>3. /\ with.Source = flags.Source /\ with.JobMappingDir = flags.JobMappingDir
        /\ flags.JobMappingDir # "" => with.GPUIdentifier = flags.GPUIdentifier
    BY <2>1, <2>2 DEF Flagged
  <2> QED
    BY <1>2, <1>3, <2>2, <2>3 DEF Flagged, FlagsTaken, with
<1> QED
  BY <1>4, <1>5

\* The configuration of a run, setting by setting.
RunSettings(c, env, flags) ==
  /\ \A k \in EnvSettings :
       ~flags.OfflineMode \/ k \notin RequestSettings => c[k] = Given(env, k)
  /\ c.OfflineMode = flags.OfflineMode
  /\ c.Components = flags.Components
  /\ c.EnableFaultInjection = flags.EnableFaultInjection
  /\ c.Source = flags.Source /\ c.JobMappingDir = flags.JobMappingDir
  /\ flags.JobMappingDir # "" => c.GPUIdentifier = flags.GPUIdentifier
  /\ c.Address = IF flags.Address # "" THEN flags.Address ELSE Default.Address
  /\ c.RetentionPeriod = IF flags.RetentionPeriod > 0 THEN flags.RetentionPeriod
                         ELSE Default.RetentionPeriod
  /\ flags.OfflineMode => /\ c.OutputPath = flags.OutputPath
                          /\ c.OutputFormat = flags.OutputFormat
                          /\ c.Duration = parseDuration(flags.Duration)

\* The flags follow the environment, and the offline mode the flags; neither
\* loses what came before.
LEMMA RunConfigIs ==
  ASSUME NEW env, NEW flags, flags.OfflineMode \in BOOLEAN,
         flags.EnableFaultInjection \in BOOLEAN
  PROVE  RunSettings(RunConfig(env, flags), env, flags)
<1> DEFINE base == FromEnv(Default, env, EnvSettings)
           with == WithFlags(base, flags)
           off == OfflineConfig(with, flags)
<1>1. \A k \in EnvSettings : base[k] = Given(env, k) /\ k \in DOMAIN base
  BY FromEnvIs, SettingsHaveDefaults DEF FromEnv
<1>2. /\ Flagged \cup Offlined \subseteq DOMAIN base
      /\ \A k \in DOMAIN Default \ EnvSettings : base[k] = Default[k]
  BY FromEnvIs, SettingsHaveDefaults DEF FromEnv
<1>3. /\ base.EnableFaultInjection = FALSE /\ base.OfflineMode = FALSE
      /\ base.Source = "" /\ base.JobMappingDir = ""
      /\ base.Address = Default.Address /\ base.RetentionPeriod = Default.RetentionPeriod
  <2>1. /\ Default.EnableFaultInjection = FALSE /\ Default.OfflineMode = FALSE
        /\ Default.Source = "" /\ Default.JobMappingDir = ""
    BY DEF Default
  <2>2. {"EnableFaultInjection", "OfflineMode", "Source", "JobMappingDir", "Address",
         "RetentionPeriod"} \subseteq DOMAIN Default \ EnvSettings
    BY EnvSettingsAre, DefaultsAre
  <2> HIDE DEF base
  <2> QED
    BY <1>2, <2>1, <2>2
<1> HIDE DEF base
<1>4. FlagsTaken(with, base, flags)
  BY <1>2, <1>3, WithFlagsIs
<1> HIDE DEF with
<1>5. /\ off.OfflineMode = TRUE /\ off.OutputPath = flags.OutputPath
      /\ off.OutputFormat = flags.OutputFormat
      /\ off.Duration = parseDuration(flags.Duration)
  BY <1>2, <1>4 DEF OfflineConfig, Offlined, FlagsTaken
<1>6. \A k \in DOMAIN base \ Offlined : off[k] = with[k]
  BY <1>4 DEF OfflineConfig, Offlined, FlagsTaken
<1>7. RunConfig(env, flags) = IF flags.OfflineMode THEN off ELSE with
  BY DEF RunConfig, base, with
<1> HIDE DEF off
<1>8. \A k \in EnvSettings : k \notin Flagged /\ (k \in Offlined => k \in RequestSettings)
  BY SettingsHaveDefaults
<1>9. \A k \in Flagged : k \in DOMAIN base \ Offlined
  BY <1>2, SettingsHaveDefaults
<1>10. CASE flags.OfflineMode
  <2>1. RunConfig(env, flags) = off
    BY <1>7, <1>10
  <2>2. \A k \in EnvSettings \ RequestSettings : off[k] = Given(env, k)
    BY <1>1, <1>4, <1>6, <1>8 DEF FlagsTaken
  <2>3. \A k \in Flagged : off[k] = with[k]
    BY <1>6, <1>9
  <2> QED
    BY <1>3, <1>4, <1>5, <1>10, <2>1, <2>2, <2>3 DEF Flagged, FlagsTaken, RunSettings
<1>11. CASE ~flags.OfflineMode
  <2>1. RunConfig(env, flags) = with
    BY <1>7, <1>11
  <2>2. \A k \in EnvSettings : with[k] = Given(env, k)
    BY <1>1, <1>4, <1>8 DEF FlagsTaken
  <2>3. with.OfflineMode = FALSE
    <3>1. "OfflineMode" \in DOMAIN base \ Flagged
      BY <1>2 DEF Flagged, Offlined
    <3> QED
      BY <1>3, <1>4, <3>1 DEF FlagsTaken
  <2> QED
    BY <1>3, <1>4, <1>11, <2>1, <2>2, <2>3 DEF FlagsTaken, RunSettings
<1> QED
  BY <1>10, <1>11

\* Validate bounds the periods that have a way to be 0; the interval of the
\* exporter is bounded where it is read, or is the default.
LEMMA AcceptedRunsAs ==
  ASSUME NEW env, NEW flags, flags.OfflineMode \in BOOLEAN,
         flags.EnableFaultInjection \in BOOLEAN, RunAccepts(env, flags)
  PROVE  RunsAs(RunConfig(env, flags), env, flags)
<1> DEFINE c == RunConfig(env, flags)
<1>1. RunSettings(c, env, flags)
  BY RunConfigIs
<1>2. Validate(c) /\ setDurationFromEnv(env.Interval, ExporterDurations.Interval)
  BY EnvSettingsAre DEF RunAccepts, configureHealthExporterFromEnv
<1> HIDE DEF c
<1>3. c.Interval >= Second
  <2>1. c.Interval = Given(env, "Interval")
    BY <1>1, EnvSettingsAre DEF RunSettings, RequestSettings
  <2>2. Default.Interval = Minute /\ ExporterDurations.Interval = <<Second, 24 * Hour>>
    BY DEF Default, ExporterDurations
  <2> QED
    BY <1>2, <2>1, <2>2 DEF Given, setDurationFromEnv, Second, Minute, Hour
<1>4. \A v, lo, hi : InRange(v, <<lo, hi>>) => v = 0 \/ v >= lo
  BY DEF InRange
<1>5. /\ InRange(c.HealthCheckInterval, <<Second, 24 * Hour>>)
      /\ InRange(c.DCGMHealthCheckInterval, <<Minute, 24 * Hour>>)
      /\ validateLoopConfig(c.InventoryEnabled, c.InventoryInterval, MinInventoryInterval)
      /\ validateLoopConfig(c.AttestationEnabled, c.AttestationInterval,
                            MinAttestationInterval)
  BY <1>2 DEF Validate
<1>6. Second = 1000 /\ Minute = 60000 /\ 30 * Second = 30000
      /\ MinInventoryInterval = 300000 /\ MinAttestationInterval = 300000
  BY DEF Second, Minute, MinInventoryInterval, MinAttestationInterval
<1>7. /\ ResolvedHealthCheckInterval(c) >= Second
      /\ ResolvedDCGMHealthCheckInterval(c) >= Minute
  <2>1. c.HealthCheckInterval = 0 \/ c.HealthCheckInterval >= Second
    BY <1>4, <1>5, Zenon
  <2>2. c.DCGMHealthCheckInterval = 0 \/ c.DCGMHealthCheckInterval >= Minute
    BY <1>4, <1>5, Zenon
  <2> QED
    BY <1>6, <2>1, <2>2 DEF ResolvedHealthCheckInterval, ResolvedDCGMHealthCheckInterval
<1>8. \A enabled, interval : \A min \in Nat \ {0} :
        validateLoopConfig(enabled, interval, min)
          => getSyncInterval(enabled, interval) \notin 1..min - 1
  BY DEF validateLoopConfig, getSyncInterval
<1>9. /\ getSyncInterval(c.InventoryEnabled, c.InventoryInterval)
            \notin 1..MinInventoryInterval - 1
       /\ getSyncInterval(c.AttestationEnabled, c.AttestationInterval)
            \notin 1..MinAttestationInterval - 1
  <2>1. MinInventoryInterval \in Nat \ {0} /\ MinAttestationInterval \in Nat \ {0}
    BY <1>6
  <2> QED
    BY <1>5, <1>8, <2>1, Zenon
<1>10. (c.OfflineMode => c.Duration > 0) /\ c.RetentionPeriod >= Minute
  BY <1>2 DEF Validate
<1>11. c.Source # "" => c.JobMappingDir # ""
  BY <1>2 DEF Validate, ValidateWorkloadAttribution
<1>12. AsGiven(c, env, flags)
  BY <1>1, <1>11 DEF AsGiven, RunSettings
<1> QED
  BY <1>3, <1>7, <1>9, <1>10, <1>12 DEF RunsAs, c

-----------------------------------------------------------------------------
(* The environment file *)

\* The value a file gives is that of one of its lines.
LEMMA EnvironmentFileIs ==
  ASSUME NEW file, file \in Seq(Range(file)), NEW k \in EnvSettings,
         EnvironmentFile(file)[k] # Unset
  PROVE  \E i \in LinesFor(file, k) : EnvironmentFile(file)[k] = file[i][2]
<1> DEFINE lines == LinesFor(file, k)
<1>1. lines # {} /\ EnvironmentFile(file)[k] = file[Max(lines)][2]
  BY DEF EnvironmentFile
<1>2. Len(file) \in Nat /\ lines \in SUBSET (1..Len(file))
  BY DEF LinesFor
<1>3. Max(lines) \in lines
  BY <1>1, <1>2, MaxIsGreatest
<1> QED
  BY <1>1, <1>3

\* A variable that is given once has the same value for enroll, which takes
\* the first, and for a daemon, which gets the last.
LEMMA SameFromFile ==
  ASSUME NEW file, file \in Seq(Range(file)), NEW k \in EnvSettings,
         \A i, j \in 1..Len(file) :
           i # j /\ file[i] # <<>> /\ file[j] # <<>> => file[i][1] # file[j][1]
  PROVE  EnvFileDefaults(NoEnv, file)[k] = EnvironmentFile(file)[k]
<1> DEFINE lines == LinesFor(file, k)
<1>1. lines \in SUBSET (1..Len(file)) /\ Len(file) \in Nat
  BY DEF LinesFor
<1>2. \A i, j \in lines : i = j
  BY <1>1 DEF LinesFor
<1>3. NoEnv[k] = Unset /\ k \in DOMAIN NoEnv
  BY DEF NoEnv
<1>4. CASE lines = {}
  BY <1>3, <1>4 DEF EnvFileDefaults, EnvironmentFile
<1>5. CASE lines # {}
  <2>1. Min(lines) \in lines /\ Max(lines) \in lines
    <3>1. lines \in SUBSET Nat
      BY <1>1
    <3> QED
      BY <1>1, <1>5, <3>1, MinIsLeast, MaxIsGreatest
  <2>2. Min(lines) = Max(lines)
    BY <1>2, <2>1
  <2> QED
    BY <1>3, <1>5, <2>2 DEF EnvFileDefaults, EnvironmentFile
<1> QED
  BY <1>4, <1>5

-----------------------------------------------------------------------------
(* The base URL *)

\* What enroll makes of an endpoint it accepted is one the exporter accepts.
LEMMA NormalizedIsAccepted ==
  ASSUME NEW u \in URLs, ValidateBackendEndpoint(u)
  PROVE  LET b == normalizeBackendBaseURL(u) IN
         /\ b \in URLs /\ ValidateBackendEndpoint(b)
         /\ b.scheme = u.scheme /\ b.host = u.host
         /\ b.scheme = "https" \/ b.host = "loopback"
         /\ b.path \in {"", "/"} /\ ~b.query
<1> DEFINE b == normalizeBackendBaseURL(u)
<1>1. CASE u.path \in {"", "/"}
  BY <1>1 DEF normalizeBackendBaseURL, ValidateBackendEndpoint, parseURL
<1>2. CASE u.path \notin {"", "/"}
  <2>1. b = [u EXCEPT !.path = "", !.forced = FALSE]
    BY <1>2 DEF normalizeBackendBaseURL, DeriveBackendBaseURL
  <2> HIDE DEF b
  <2>2. /\ b \in URLs /\ b.parses = u.parses /\ b.scheme = u.scheme /\ b.host = u.host
        /\ b.path = "" /\ b.user = u.user /\ b.query = u.query
    BY <2>1 DEF URLs
  <2> QED
    BY <2>2 DEF ValidateBackendEndpoint, parseURL, b
<1> QED
  BY <1>1, <1>2

-----------------------------------------------------------------------------
(* ComponentSelection *)

\* The sets of names that New and the report work with, entry by entry.
LEMMA NamesInList ==
  ASSUME NEW list \in Seq(Entry), NEW n \in Range(Registry)
  PROVE  /\ n \in DisabledNames(list) <=> Disable(n) \in Range(list)
         /\ n \in EnabledNames(list) <=> Enable(n) \in Range(list)
         /\ WildcardFirst(list) /\ ~AllMode(list) => ~HasWildcard(list)
         /\ AllMode(list) => list = <<>> \/ Wildcard \in Range(list)
<1>1. n \in STRING /\ n # "all"
  BY RegistryIsNamed DEF Range
<1>2. \A e \in Range(list) : e \in Entry
  BY DEF Range
<1>3. \A e \in Entry : /\ e.disable /\ e.name = n => e = Disable(n)
                       /\ ~e.disable /\ e.name = n => e = Enable(n)
  BY DEF Entry, Disable, Enable
<1>4. /\ Disable(n).disable /\ Disable(n).name = n
      /\ ~Enable(n).disable /\ Enable(n).name = n /\ Enable(n) # Wildcard
  BY <1>1 DEF Disable, Enable, Wildcard
<1>5. n \in DisabledNames(list) <=> Disable(n) \in Range(list)
  BY <1>2, <1>3, <1>4 DEF DisabledNames
<1>6. n \in EnabledNames(list) <=> Enable(n) \in Range(list)
  BY <1>2, <1>3, <1>4 DEF EnabledNames
<1>7. WildcardFirst(list) /\ ~AllMode(list) => ~HasWildcard(list)
  BY DEF WildcardFirst, AllMode, HasWildcard, Range
<1>8. AllMode(list) => list = <<>> \/ Wildcard \in Range(list)
  BY DEF AllMode, Range
<1> QED
  BY <1>5, <1>6, <1>7, <1>8

\* What a list asks for, in the terms of the code.
LEMMA AskedForIs ==
  ASSUME NEW list \in Seq(Entry), WildcardFirst(list), NEW n \in Range(Registry)
  PROVE  n \in AskedFor(list) <=> /\ n \notin DisabledNames(list)
                                  /\ AllMode(list) \/ n \in EnabledNames(list)
<1>1. /\ n \in DisabledNames(list) <=> Disable(n) \in Range(list)
      /\ n \in EnabledNames(list) <=> Enable(n) \in Range(list)
      /\ ~AllMode(list) => Wildcard \notin Range(list)
      /\ AllMode(list) => list = <<>> \/ Wildcard \in Range(list)
  BY NamesInList DEF HasWildcard
<1>2. {Wildcard, Enable(n)} \cap Range(list) # {}
        <=> Wildcard \in Range(list) \/ Enable(n) \in Range(list)
  OBVIOUS
<1>3. list = <<>> => AllMode(list)
  BY DEF AllMode
<1>4. n \in AskedFor(list)
        <=> /\ Disable(n) \notin Range(list)
            /\ list = <<>> \/ {Wildcard, Enable(n)} \cap Range(list) # {}
  BY DEF AskedFor
<1> QED
  BY <1>1, <1>2, <1>3, <1>4

\* The report names what the list asks for ...
LEMMA ListsWhatIsAskedFor ==
  ASSUME NEW list \in Seq(Entry), WildcardFirst(list)
  PROVE  getComponentLists(list) = AskedFor(list)
<1>1. \A n \in Range(Registry) :
        n \in getComponentLists(list) <=> n \in AskedFor(list)
  BY AskedForIs DEF getComponentLists
<1> QED
  BY <1>1 DEF getComponentLists, AskedFor

\* ... and New registers it, whether the sets were built before or not.
LEMMA EnablesWhatIsAskedFor ==
  ASSUME NEW list \in Seq(Entry), WildcardFirst(list), NEW n \in Range(Registry),
         NEW memo \in {NotBuilt, EnabledNames(list)}
  PROVE  /\ shouldEnableComponent(list, memo, n) <=> n \in AskedFor(list)
         /\ SelectedAfter(list, memo) \in {NotBuilt, EnabledNames(list)}
<1>1. ~AllMode(list) => ~HasWildcard(list)
  BY NamesInList
<1>2. ShouldEnable(list, memo, n) <=> AllMode(list) \/ n \in EnabledNames(list)
  BY <1>1 DEF ShouldEnable
<1>3. SelectedAfter(list, memo) \in {NotBuilt, EnabledNames(list)}
  BY <1>1 DEF SelectedAfter
<1>4. shouldEnableComponent(list, memo, n) <=> n \in AskedFor(list)
  BY <1>2, AskedForIs DEF shouldEnableComponent, ShouldDisable
<1> QED
  BY <1>3, <1>4

-----------------------------------------------------------------------------
(* ServerSocket: the path, for any number of daemons and starts *)

\* A step of any daemon at the socket.
SocketNext ==
  \E d \in Daemons :
    \/ Starts(d) \/ (\E b \in BOOLEAN : Boots(d, b) \/ ListenAndServe(d, b))
    \/ SocketStep(d) \/ SocketFault(d) \/ StopClosesListener(d) \/ StopEnds(d)

(***************************************************************************)
(* While nobody raced, one daemon at most is between probe and bind, and   *)
(* nobody listens then: the probe found so, and only that daemon can       *)
(* change it.  A listening daemon has bound the path as the last one.      *)
(***************************************************************************)
SocketInv ==
  /\ step \in [Daemons -> SocketSteps]
  /\ listening \subseteq Daemons
  /\ raced \in BOOLEAN
  /\ \A d \in listening : step[d] \in {"chmod", "serving"}
  /\ \A d \in Daemons : step[d] = "chmod" => d \in listening
  /\ ~raced =>
       /\ \A d \in listening : path = d
       /\ \A d \in Daemons : step[d] \in Binding => listening = {}
       /\ \A d, e \in Daemons : step[d] \in Binding /\ step[e] \in Binding => d = e

\* Whatever is found at the path.
LEMMA SocketInitInv == ASSUME NEW found, SocketInit(found) PROVE SocketInv
  BY DEF SocketInit, SocketInv, SocketSteps, Binding

\* Moving one daemon's step.
LEMMA Moves ==
  ASSUME SocketInv, NEW d \in Daemons, NEW s \in SocketSteps, SocketGoto(d, s)
  PROVE  /\ step' \in [Daemons -> SocketSteps] /\ step'[d] = s
         /\ \A e \in Daemons : e # d => step'[e] = step[e]
  BY DEF SocketInv, SocketGoto

\* Steps outside Binding that leave the path and the listeners alone, or move
\* on inside it.
LEMMA QuietKeepsInv ==
  ASSUME SocketInv, NEW d \in Daemons, NEW s \in SocketSteps, SocketGoto(d, s),
         UNCHANGED <<path, listening, raced>>,
         d \in listening => s \in {"chmod", "serving"},
         s \in Binding => step[d] \in Binding, s # "chmod"
  PROVE  SocketInv'
<1>1. /\ step' \in [Daemons -> SocketSteps] /\ step'[d] = s
      /\ \A e \in Daemons : e # d => step'[e] = step[e]
  BY Moves
<1>2. \A e \in Daemons : step'[e] \in Binding => step[e] \in Binding
  BY <1>1
<1>3. /\ \A e \in listening : step'[e] \in {"chmod", "serving"}
      /\ \A e \in Daemons : step'[e] = "chmod" => e \in listening
  BY <1>1 DEF SocketInv
<1> QED
  BY <1>1, <1>2, <1>3 DEF SocketInv

\* A daemon that stops listening, or never did.
LEMMA LeavesKeepsInv ==
  ASSUME SocketInv, NEW d \in Daemons, NEW s \in SocketSteps \ Binding, SocketGoto(d, s),
         s # "chmod", UNCHANGED raced, listening' = listening \ {d},
         path' = path \/ (d \in listening /\ path' = "none")
  PROVE  SocketInv'
<1>1. /\ step' \in [Daemons -> SocketSteps] /\ step'[d] = s
      /\ \A e \in Daemons : e # d => step'[e] = step[e]
  BY Moves
<1>2. \A e \in listening' : e # d /\ e \in listening /\ step'[e] = step[e]
  BY <1>1 DEF SocketInv
<1>3. ~raced => \A e \in listening' : path' = e
  BY <1>2 DEF SocketInv
<1> QED
  BY <1>1, <1>2, <1>3 DEF SocketInv

\* The probe: nobody listens when it lets a daemon through.
LEMMA ProbeKeepsInv ==
  ASSUME SocketInv, NEW d \in Daemons, Probe(d)
  PROVE  SocketInv'
<1>1. d \notin listening
  BY DEF SocketInv, Probe
<1>2. CASE path \in listening
  BY <1>1, <1>2, QuietKeepsInv DEF Probe, SocketSteps, Binding
<1>3. CASE path \notin listening
  <2>1. /\ SocketGoto(d, "lstat") /\ TrackRace(d) /\ UNCHANGED <<path, listening>>
    BY <1>3 DEF Probe
  <2>2. /\ step' \in [Daemons -> SocketSteps] /\ step'[d] = "lstat"
        /\ \A e \in Daemons : e # d => step'[e] = step[e]
    BY <2>1, Moves DEF SocketSteps
  <2>3. raced' \in BOOLEAN /\ \A e \in listening : step'[e] \in {"chmod", "serving"}
    BY <1>1, <2>1, <2>2 DEF TrackRace, SocketInv
  <2>4. ~raced' => /\ listening = {} /\ ~raced
                   /\ \A e \in Daemons : e # d => step'[e] \notin Binding
    BY <1>3, <2>1, <2>2 DEF TrackRace, SocketInv
  <2> QED
    BY <2>1, <2>2, <2>3, <2>4 DEF SocketInv
<1> QED
  BY <1>2, <1>3

\* Removing a stale file and binding the path.
LEMMA BindKeepsInv ==
  ASSUME SocketInv, NEW d \in Daemons, RemoveStale(d) \/ Listen(d)
  PROVE  SocketInv'
<1>1. step[d] \in Binding /\ d \notin listening /\ (~raced => listening = {})
  BY DEF SocketInv, RemoveStale, Listen, Binding
<1>2. CASE RemoveStale(d)
  <2>1. PICK s \in {"exited", "listen"} : SocketGoto(d, s)
    BY <1>2 DEF RemoveStale
  <2>2. /\ step' \in [Daemons -> SocketSteps] /\ step'[d] = s
        /\ \A e \in Daemons : e # d => step'[e] = step[e]
    BY <2>1, Moves DEF SocketSteps
  <2> QED
    BY <1>1, <1>2, <2>2 DEF RemoveStale, SocketInv
<1>3. CASE Listen(d) /\ path = "none"
  <2>1. /\ step' \in [Daemons -> SocketSteps] /\ step'[d] = "chmod"
        /\ \A e \in Daemons : e # d => step'[e] = step[e]
    BY <1>3, Moves DEF Listen, SocketSteps
  <2>2. path' = d /\ listening' = listening \cup {d} /\ UNCHANGED raced
    BY <1>3 DEF Listen
  <2>3. ~raced => \A e \in Daemons : step'[e] \notin Binding
    BY <1>1, <2>1 DEF SocketInv, Binding
  <2> QED
    BY <1>1, <2>1, <2>2, <2>3 DEF SocketInv
<1>4. CASE Listen(d) /\ path # "none"
  BY <1>1, <1>4, QuietKeepsInv DEF Listen, SocketSteps, Binding
<1> QED
  BY <1>2, <1>3, <1>4

\* Every step keeps the invariant.
LEMMA SocketNextKeepsInv ==
  ASSUME SocketInv, SocketNext
  PROVE  SocketInv'
<1>1. PICK d \in Daemons :
        \/ Starts(d) \/ (\E b \in BOOLEAN : Boots(d, b) \/ ListenAndServe(d, b))
        \/ SocketStep(d) \/ SocketFault(d) \/ StopClosesListener(d) \/ StopEnds(d)
  BY DEF SocketNext
<1>2. CASE Starts(d) \/ StopEnds(d) \/ SetupFails(d) \/ Lstat(d)
           \/ \E b \in BOOLEAN : Boots(d, b) \/ ListenAndServe(d, b)
  <2>1. /\ step[d] \notin {"chmod", "serving"} /\ UNCHANGED <<path, listening, raced>>
        /\ \E s \in SocketSteps : SocketGoto(d, s) /\ s # "chmod"
                                   /\ (s \in Binding => step[d] \in Binding)
    BY <1>2 DEF Starts, StopEnds, SetupFails, Lstat, Boots, ListenAndServe,
                SocketSteps, Binding
  <2>2. d \notin listening
    BY <2>1 DEF SocketInv
  <2> QED
    BY <2>1, <2>2, QuietKeepsInv
<1>3. CASE Chmod(d) /\ path # "none"
  BY <1>3, QuietKeepsInv DEF Chmod, SocketSteps, Binding
<1>4. CASE (Chmod(d) /\ path = "none") \/ ChmodFails(d) \/ StopClosesListener(d) \/ Killed(d)
  <2>1. /\ \E s \in {"exited", "stopping"} : SocketGoto(d, s)
        /\ UNCHANGED raced
    BY <1>4 DEF Chmod, ChmodFails, StopClosesListener, Killed
  <2>2. /\ listening' = listening \ {d}
        /\ path' = path \/ (d \in listening /\ path' = "none")
    BY <1>4 DEF Chmod, ChmodFails, StopClosesListener, Closes, Killed, SocketInv
  <2> QED
    BY <2>1, <2>2, LeavesKeepsInv DEF SocketSteps, Binding
<1> QED
  BY <1>1, <1>2, <1>3, <1>4, ProbeKeepsInv, BindKeepsInv DEF SocketStep, SocketFault
=============================================================================
