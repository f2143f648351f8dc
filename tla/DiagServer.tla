----------------------------- MODULE DiagServer -----------------------------
(***************************************************************************)
(* The diagram server (internal/diagserver/server.go): metadata analysed   *)
(* on demand, two caches of what is drawn from it, and concurrent requests *)
(* that read, refresh and replace them.  A step is one critical section of *)
(* Server.mu, or one unlocked read of s.metadata.                          *)
(*                                                                         *)
(* Metadata is represented by the directory and the version of the sources *)
(* it was analysed from, and a diagram or a page by the metadata it was    *)
(* drawn from.  Requests refused for their method or parameters touch      *)
(* nothing and are left out.  UIServer!Propagate is SwitchTo here.         *)
(***************************************************************************)
EXTENDS Naturals

CONSTANTS Requests,
          Dirs,      \* project directories
          InitDir,   \* Config.InputDir at the start
          Pages,     \* cache keys of pages: page, size, depth and filters
          MaxEdits,  \* bound on the edits of a project's sources
          Hung,      \* requests whose analysis or drawing may never end
          None,      \* no metadata (nil), no entry in a cache
          Blank      \* the diagram that is drawn from nil metadata

ASSUME InitDirAssumption == InitDir \in Dirs
ASSUME EditsAssumption == MaxEdits \in Nat
ASSUME HungAssumption == Hung \subseteq Requests

Versions == 0..MaxEdits

Metadata == [dir : Dirs, ver : Versions]

ASSUME NoneAssumption ==
  /\ None \notin Requests \union Metadata
  /\ Blank \notin Metadata \union {None}

VARIABLES
  inputDir,   \* Config.InputDir
  meta,       \* Server.metadata
  dataCache,  \* Server.dataCache, by depth
  pageCache,  \* Server.cache
  sources,    \* the version of the sources of each project on disk
  pc,         \* where the handler of each request is
  work,       \* where the drawing of each request's diagram is
  kind,       \* what each request asks for
  page,       \* the cache key of a page request
  draft,      \* LoadMetadata's dir and meta
  view,       \* the diagram a request has drawn or found
  overtaken,  \* history: requests on whose way the metadata was replaced
  lateMeta,   \* history: an overtaken request has stored the metadata,
  lateData,   \* history: these diagrams
  latePages,  \* history: and these pages
  newest      \* history: the newest version that was stored, by project

server  == <<inputDir, meta, dataCache, pageCache>>
request == <<pc, work, kind, page, draft, view>>
history == <<overtaken, lateMeta, lateData, latePages, newest>>
vars    == <<server, sources, request, history>>

(* handlePaginatedDiagram and handleExport are "page"; handlePackage-      *)
(* Hierarchy and handlePackageBasedDiagram, which read s.metadata before   *)
(* they draw, are "packages".                                              *)
Kinds == {"diagram", "page", "packages", "stats", "refresh", "switch"}

Depth(r) == IF kind[r] = "diagram" THEN "normal" ELSE "full"

Diagrams == Metadata \union {Blank}

TypeOK ==
  /\ inputDir \in Dirs
  /\ meta \in Metadata \union {None}
  /\ dataCache \in [{"normal", "full"} -> Diagrams \union {None}]
  /\ pageCache \in [Pages -> Diagrams \union {None}]
  /\ sources \in [Dirs -> Versions]
  /\ pc \in [Requests -> {"idle", "ensure", "load", "analyse", "store",
                          "read", "wait", "switch", "end"}]
  /\ work \in [Requests -> {"none", "page", "data", "draw", "keep",
                            "keepPage", "sent"}]
  /\ kind \in [Requests -> Kinds]
  /\ page \in [Requests -> Pages]
  /\ draft \in [Requests -> Metadata]
  /\ view \in [Requests -> Diagrams \union {None}]
  /\ overtaken \in SUBSET Requests
  /\ lateMeta \in BOOLEAN
  /\ lateData \in SUBSET {"normal", "full"}
  /\ latePages \in SUBSET Pages
  /\ newest \in [Dirs -> Versions]

(* A map that New forgets to make. *)
NilPageCache == [p \in {} |-> None]

EmptyDataCache == [d \in {"normal", "full"} |-> None]
EmptyPageCache == [p \in Pages |-> None]

(* The UI server starts the diagram server without metadata; apidiag loads *)
(* it before the first request.                                            *)
Init ==
  /\ inputDir = InitDir
  /\ meta \in {None, [dir |-> InitDir, ver |-> 0]}
  /\ dataCache = EmptyDataCache
  /\ pageCache = EmptyPageCache
  /\ sources = [d \in Dirs |-> 0]
  /\ pc = [r \in Requests |-> "idle"]
  /\ work = [r \in Requests |-> "none"]
  /\ kind = [r \in Requests |-> "stats"]
  /\ page \in [Requests -> Pages]
  /\ draft = [r \in Requests |-> [dir |-> InitDir, ver |-> 0]]
  /\ view = [r \in Requests |-> None]
  /\ overtaken = {}
  /\ lateMeta = FALSE
  /\ lateData = {}
  /\ latePages = {}
  /\ newest = [d \in Dirs |-> 0]

Goto(r, place) == pc' = [pc EXCEPT ![r] = place]

WorkGoto(r, place) == work' = [work EXCEPT ![r] = place]

(* A handler runs, or a drawing that its handler has given up on. *)
Busy(r) == pc[r] \notin {"idle", "end"} \/ work[r] \notin {"none", "sent"}

(* The request goes by something it has read from the server: that there   *)
(* is metadata, the directory to analyse, or the diagram to keep.          *)
HasRead(r) == \/ pc[r] \in {"analyse", "store", "read"}
              \/ work[r] \in {"page", "data", "draw", "keep", "keepPage"}

(* History: r replaces the metadata, under the other requests. *)
Overtake(r) == overtaken' = {q \in Requests \ {r} : HasRead(q)}

(* History: r reads the server's state anew. *)
ReadsAnew(r) == overtaken' = overtaken \ {r}

Larger(m, n) == IF m < n THEN n ELSE m

-----------------------------------------------------------------------------
Arrive(r) ==
  /\ pc[r] = "idle"
  /\ \E k \in Kinds :
       /\ kind' = [kind EXCEPT ![r] = k]
       /\ Goto(r, IF k = "switch" THEN "switch"
                  ELSE IF k = "refresh" THEN "load" ELSE "ensure")
  /\ UNCHANGED <<server, sources, work, page, draft, view, history>>

(* What a request does once the metadata is there. *)
Proceed(r) ==
  \/ /\ kind[r] \in {"packages", "stats"}
     /\ Goto(r, "read")
     /\ UNCHANGED work
  \/ /\ kind[r] \in {"diagram", "page"}
     /\ Goto(r, "wait")
     /\ WorkGoto(r, IF kind[r] = "page" THEN "page" ELSE "data")
  \/ /\ kind[r] = "refresh"
     /\ Goto(r, "end")
     /\ UNCHANGED work

(* ensureMetadata. *)
EnsureMetadata(r) ==
  /\ pc[r] = "ensure"
  /\ IF meta # None THEN Proceed(r) ELSE Goto(r, "load") /\ UNCHANGED work
  /\ UNCHANGED <<server, sources, kind, page, draft, view, history>>

(* LoadMetadata, three steps: the directory is read under the lock, the    *)
(* engine runs without it, the outcome is stored under it.                 *)
ReadDir(r) ==
  /\ pc[r] = "load"
  /\ draft' = [draft EXCEPT ![r].dir = inputDir]
  /\ Goto(r, "analyse")
  /\ ReadsAnew(r)
  /\ UNCHANGED <<server, sources, work, kind, page, view, lateMeta,
                 lateData, latePages, newest>>

FailsOpen(r) == Proceed(r)

TriesAgain(r) == Goto(r, "load") /\ UNCHANGED work

(* The handler answers 500. *)
Fails(r) == Goto(r, "end") /\ UNCHANGED work

Analyse(r) ==
  /\ pc[r] = "analyse"
  /\ \/ /\ draft' = [draft EXCEPT ![r].ver = sources[draft[r].dir]]
        /\ Goto(r, "store")
        /\ UNCHANGED work
     \/ Fails(r) /\ UNCHANGED draft
  /\ UNCHANGED <<server, sources, kind, page, view, history>>

DropDiagrams ==
  /\ dataCache' = EmptyDataCache
  /\ UNCHANGED pageCache

DropCaches ==
  /\ dataCache' = EmptyDataCache
  /\ pageCache' = EmptyPageCache

StoreMetadata(r) ==
  /\ pc[r] = "store"
  /\ meta' = draft[r]
  /\ DropCaches
  /\ Proceed(r)
  /\ Overtake(r)
  /\ lateMeta' = (r \in overtaken)
  /\ lateData' = {}
  /\ latePages' = {}
  /\ newest' = [newest EXCEPT ![draft[r].dir] = Larger(@, draft[r].ver)]
  /\ UNCHANGED <<inputDir, sources, kind, page, draft, view>>

(* SetInputDir. *)
KeepsDiagrams ==
  /\ pageCache' = EmptyPageCache
  /\ UNCHANGED dataCache

DropOnSwitch == DropCaches

SwitchTo(r) ==
  /\ pc[r] = "switch"
  /\ \E d \in Dirs : inputDir' = d
  /\ meta' = None
  /\ DropOnSwitch
  /\ Goto(r, "end")
  /\ Overtake(r)
  /\ lateMeta' = FALSE
  /\ lateData' = {}
  /\ latePages' = {}
  /\ UNCHANGED <<sources, work, kind, page, draft, view, newest>>

(* The handlers that use s.metadata themselves, with no lock: on nil they  *)
(* panic, which net/http turns into a broken answer.                       *)
ReadMetadata(r) ==
  /\ pc[r] = "read"
  /\ IF kind[r] = "packages" /\ meta # None
       THEN Goto(r, "wait") /\ WorkGoto(r, "data")
       ELSE Goto(r, "end") /\ UNCHANGED work
  /\ UNCHANGED <<server, sources, kind, page, draft, view, history>>

-----------------------------------------------------------------------------
(* Drawing: generatePaginatedDataInternal in a goroutine of its own for a  *)
(* page, getAllData in the handler for the others.                         *)

LookUpPage(r) ==
  /\ work[r] = "page"
  /\ view' = [view EXCEPT ![r] = pageCache[page[r]]]
  /\ WorkGoto(r, IF pageCache[page[r]] # None THEN "sent" ELSE "data")
  /\ UNCHANGED <<server, sources, pc, kind, page, draft, history>>

DrawnThen(r) == WorkGoto(r, IF kind[r] = "page" THEN "keepPage" ELSE "sent")

LookUpData(r) ==
  /\ work[r] = "data"
  /\ view' = [view EXCEPT ![r] = dataCache[Depth(r)]]
  /\ IF dataCache[Depth(r)] # None
       THEN /\ DrawnThen(r)
            /\ IF Depth(r) \in lateData
                 THEN overtaken' = overtaken \union {r}
                 ELSE ReadsAnew(r)
       ELSE WorkGoto(r, "draw") /\ UNCHANGED overtaken
  /\ UNCHANGED <<server, sources, pc, kind, page, draft, lateMeta,
                 lateData, latePages, newest>>

(* What is drawn from the metadata of now. *)
Drawn == IF meta = None THEN Blank ELSE meta

(* s.metadata is read with no lock. *)
Draw(r) ==
  /\ work[r] = "draw"
  /\ view' = [view EXCEPT ![r] = Drawn]
  /\ WorkGoto(r, "keep")
  /\ ReadsAnew(r)
  /\ UNCHANGED <<server, sources, pc, kind, page, draft, lateMeta,
                 lateData, latePages, newest>>

(* History: what r stores under the key k is late if r was overtaken.      *)
LateWith(r, k, keys) == IF r \in overtaken THEN keys \union {k} ELSE keys \ {k}

KeepData(r) ==
  /\ work[r] = "keep"
  /\ dataCache' = [dataCache EXCEPT ![Depth(r)] = view[r]]
  /\ DrawnThen(r)
  /\ lateData' = LateWith(r, Depth(r), lateData)
  /\ UNCHANGED <<inputDir, meta, pageCache, sources, pc, kind, page, draft,
                 view, overtaken, lateMeta, latePages, newest>>

KeepPage(r) ==
  /\ work[r] = "keepPage"
  /\ pageCache' = [pageCache EXCEPT ![page[r]] = view[r]]
  /\ WorkGoto(r, "sent")
  /\ latePages' = LateWith(r, page[r], latePages)
  /\ UNCHANGED <<inputDir, meta, dataCache, sources, pc, kind, page, draft,
                 view, overtaken, lateMeta, lateData, newest>>

Deliver(r) ==
  /\ pc[r] = "wait"
  /\ work[r] = "sent"
  /\ Goto(r, "end")
  /\ UNCHANGED <<server, sources, work, kind, page, draft, view, history>>

NeverTimesOut(r) == FALSE

TimesOut(r) == kind[r] = "page"

(* generatePaginatedData answers an empty page after 30 s; the goroutine   *)
(* goes on and fills the caches.                                           *)
TimeOut(r) ==
  /\ pc[r] = "wait"
  /\ TimesOut(r)
  /\ Goto(r, "end")
  /\ UNCHANGED <<server, sources, work, kind, page, draft, view, history>>

-----------------------------------------------------------------------------
(* Somebody edits a project. *)
Edit(d) ==
  /\ sources[d] < MaxEdits
  /\ sources' = [sources EXCEPT ![d] = @ + 1]
  /\ UNCHANGED <<server, request, history>>

Load(r) == ReadDir(r) \/ StoreMetadata(r)

Handler(r) ==
  \/ EnsureMetadata(r) \/ Load(r) \/ SwitchTo(r) \/ ReadMetadata(r)
  \/ Deliver(r) \/ TimeOut(r)

Drawing(r) ==
  LookUpPage(r) \/ LookUpData(r) \/ KeepData(r) \/ KeepPage(r)

(* Every request has been dealt with: the server waits for another one. *)
Quiet ==
  /\ \A r \in Requests : pc[r] = "end" /\ ~Busy(r)
  /\ UNCHANGED vars

Next ==
  \/ \E r \in Requests : \/ Arrive(r) \/ Handler(r) \/ Drawing(r)
                         \/ Analyse(r) \/ Draw(r)
  \/ \E d \in Dirs : Edit(d)
  \/ Quiet

(* Each request runs in a goroutine of its own and no critical section     *)
(* blocks; the 30 s timer fires.  Analysis and drawing end unless the      *)
(* request is one of the Hung.                                             *)
Fairness ==
  /\ \A r \in Requests : WF_vars(Handler(r)) /\ WF_vars(Drawing(r))
  /\ \A r \in Requests \ Hung : WF_vars(Analyse(r)) /\ WF_vars(Draw(r))

Spec == Init /\ [][Next]_vars /\ Fairness

-----------------------------------------------------------------------------
(* Metadata is of the current project and no older than any that a load of *)
(* it has stored, unless it was stored by a LoadMetadata under which       *)
(* another one or SetInputDir has replaced it meanwhile.                   *)
MetadataIsCurrent ==
  ~lateMeta /\ meta # None =>
    meta.dir = inputDir /\ meta.ver >= newest[meta.dir]

(* What is cached is drawn from the metadata of now, unless a load or a    *)
(* switch came between the drawing and the keeping of it, or of the larger *)
(* diagram that a page was cut from.                                       *)
DiagramsAreCurrent ==
  /\ \A d \in {"normal", "full"} \ lateData : dataCache[d] \in {None, Drawn}
  /\ \A p \in Pages \ latePages : pageCache[p] \in {None, Drawn}

(* Whatever loads, refreshes, switches, timeouts, failures and abandoned   *)
(* drawings are under way together, the one way to old metadata and old    *)
(* diagrams is a request that was overtaken between reading and storing:   *)
(* a load and a switch leave nothing else behind.                          *)
OnlyLateIsStale == MetadataIsCurrent /\ DiagramsAreCurrent

(* A handler or a drawing meets nil metadata (and panics, or draws and     *)
(* keeps a blank diagram) only if a switch came after its ensureMetadata:  *)
(* no failed load, no other load and no timeout lets it through.           *)
NoNilUnlessOvertaken ==
  \A r \in Requests \ overtaken :
    pc[r] = "read" \/ work[r] = "draw" => meta # None

(* A page request is answered even if its drawing never ends. *)
PageIsAnswered ==
  \A r \in Requests : (pc[r] = "wait" /\ kind[r] = "page") ~> (pc[r] = "end")

(* A request whose analysis and drawing end is answered. *)
RequestIsAnswered ==
  \A r \in Requests \ Hung : (pc[r] # "idle") ~> (pc[r] = "end")

(* Every request is answered, in its own time or after 30 seconds.         *)
RequestsAreAnswered == PageIsAnswered /\ RequestIsAnswered

(* What server.go:122 says of SetInputDir, and it is not so: it "changes   *)
(* the project directory and invalidates cached metadata. The next request *)
(* that needs metadata will trigger a fresh LoadMetadata."                 *)
SwitchInvalidates == meta # None => meta.dir = inputDir

=============================================================================
