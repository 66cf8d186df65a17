------------------------------- MODULE Plugins -------------------------------
(***************************************************************************)
(* The plugin thread (WasmBridge), the tasks that load and reload plugins  *)
(* for it (PluginLoader), and the map of running plugins, the cache of     *)
(* compiled modules and the list of clients that they share.               *)
(*                                                                         *)
(* All plugins here run the same file: those of different files meet only  *)
(* in the list of clients.  What a plugin does is reduced to its size and  *)
(* what it has been told last.  Workers, permissions, downloads and what   *)
(* plugins ask of the other threads are left out.                          *)
(*                                                                         *)
(* The thread handles a request when it comes: that ApplyCachedEvents has  *)
(* a place among the others in its channel is all that matters of it.      *)
(***************************************************************************)
EXTENDS Integers, FiniteSets, SequencesExt

CONSTANTS
    Clients,      \* ids of clients
    Ids,          \* ids of plugins: none is given out twice
    Sizes,        \* sizes of a plugin pane
    Main,         \* the plugin thread, as it adds a client
    MaxRequests,  \* the number of requests to the plugin thread
    Disorder,     \* the disorderly events that happen, a subset of Disorders
    None          \* Option::None

Workers == Ids \cup {Main}

(* What may come in an order that the code does not stand:                 *)
(*   "module taken"  a module is looked for in the cache while another has  *)
(*                   taken it out, which each does for a moment             *)
(*   "came late"     a client is added while a plugin is reloaded, or it    *)
(*                   was not listed when the others of a plugin were and    *)
(*                   the plugin was not when those for the client were      *)
(*   "closed early"  a plugin is closed before it has been loaded           *)
(*   "loaded late"   a plugin is started while others are reloaded          *)
(*   "late resize"   a plugin is asked for its size before it is resized    *)
(*   "reordered"     news overtake each other                              *)
(*   "deserted"      plugins are reloaded while no client is there, or the  *)
(*                   last one leaves then                                  *)
(*   "broken build"  the file does not compile                             *)
(*   "edited"        the file is edited when it is in the cache, but not run *)
Disorders == {"module taken", "came late", "closed early", "loaded late",
              "late resize", "reordered", "deserted", "broken build", "edited"}
Happens(disorder) == disorder \in Disorder

ASSUME PluginsAssumption ==
    /\ IsFiniteSet(Clients) /\ IsFiniteSet(Ids)
    /\ Main \notin Ids
    /\ None \notin Clients \cup Ids \cup Sizes \cup Nat
    /\ MaxRequests \in Nat
    /\ Disorder \subseteq Disorders

VARIABLES
    bridge,    \* WasmBridge
    running,   \* plugin_map
    cache,     \* plugin_cache: the compiled module, by its version, or None
    file,      \* the version of the file, which is edited for each reload
    tasks,     \* what each task, and the thread, has to do
    toPlugins, \* the ApplyCachedEvents that are on their way
    screen,    \* what the screen thread has asked for, and has been told
    requests   \* the number of requests so far

vars == <<bridge, running, cache, file, tasks, toPlugins, screen, requests>>

Maybe(S) == S \cup {None}
Versions == 1 .. MaxRequests + 1
News     == 0 .. MaxRequests
EventIds == 0 .. 2 * MaxRequests

Instances == [                              \* RunningPlugin
    code: Versions,                         \* the module it was made of
    size: Sizes,                            \* rows, columns
    resizes: SUBSET (EventIds \X Sizes),    \* the tasks that will resize it
    next: EventIds, last: EventIds,         \* next_, last_applied_event_ids
    told: News,                             \* the last news it was told
    news: SUBSET News]                      \* those that tasks will tell it

ASSUME NoneIsNoInstance == None \notin Instances
ASSUME NoneIsNoNews == \A news \in SUBSET News : news # None

Steps == [do: {"load", "compile", "take", "copy", "put", "clone", "unlock",
               "again", "memory", "loaded", "done", "push"},
          id: Maybe(Ids), client: Maybe(Clients)]

Tasks == [                                  \* PluginLoader
    steps: Seq(Steps),
    for: {"start", "reload", "others", "client"},
    ids: SUBSET Ids,                        \* the plugins it was spawned for
    module: Maybe(Versions),                \* the module in its hands
    size: Maybe(Sizes)]

Bridges == [
    connected: Seq(Clients),                \* connected_clients
    locked: Maybe(Ids),                     \* the task that has locked them
    loading: SUBSET Ids,                    \* loading_plugins
    pending: BOOLEAN,                       \* pending_plugin_reloads
    events: [Ids -> Maybe(SUBSET News)],    \* cached_events_for_pending_plugins
    sizes: [Ids -> Maybe(Sizes)],           \* cached_resizes_for_pending_plugins
    up: BOOLEAN]                            \* the thread has not ended

Screens == [
    given: SUBSET Ids,                      \* ids below next_plugin_id
    open: SUBSET Ids,                       \* those that have a pane
    size: [Ids -> Sizes],                   \* the size of the pane
    failed: SUBSET Ids,                     \* those whose pane shows an error
    now: News,                              \* what plugins should know
    asked: BOOLEAN]                         \* RequestStateUpdateForPlugins

Connected == ToSet(bridge.connected)
(* Those of a sequence that are not x, in their order.                      *)
Others(seq, x) ==
    FlattenSeq([i \in DOMAIN seq |-> IF seq[i] = x THEN <<>> ELSE <<seq[i]>>])

InstancesIn(r) == {k \in Ids \X Clients : r[k[1]][k[2]] # None}
RunningIn(r) == {k[1] : k \in InstancesIn(r)}

Busy(w) == tasks[w].steps # <<>>
MainIsIdle == bridge.up /\ ~Busy(Main)
Reloading == \E id \in Ids : Busy(id) /\ tasks[id].for # "start"

(* The size of an instance when it is asked: as a rule, its tasks have run. *)
Latest(i) == CHOOSE r \in i.resizes : \A s \in i.resizes : s[1] <= r[1]
SizesOf(i) ==
    LET late == \E r \in i.resizes : r[1] >= i.last
    IN  (IF late THEN {Latest(i)[2]} ELSE {i.size})
          \cup (IF Happens("late resize") THEN {i.size} ELSE {})

NewInstance(code, size) ==
    [code |-> code, size |-> size, resizes |-> {}, next |-> 0, last |-> 0,
     told |-> 0, news |-> {}]

-----------------------------------------------------------------------------
(* Requests                                                                *)

Step(do, id, c) == [do |-> do, id |-> id, client |-> c]

Task(for, ids, size, steps) ==
    [steps |-> steps, for |-> for, ids |-> ids, module |-> None, size |-> size]

Requested == MainIsIdle /\ requests < MaxRequests /\ requests' = requests + 1

(* Before the first client, or with it.                                    *)
Init ==
    /\ \E first \in {<<>>} \cup {<<c>> : c \in Clients} :
       bridge = [connected |-> first, locked |-> None, loading |-> {},
                 pending |-> FALSE, events |-> [id \in Ids |-> None],
                 sizes |-> [id \in Ids |-> None], up |-> TRUE]
    /\ running = [id \in Ids |-> [c \in Clients |-> None]]
    /\ cache = None /\ file = 1
    /\ tasks = [w \in Workers |-> Task("client", {}, None, <<>>)]
    /\ toPlugins = <<>> /\ requests = 0
    /\ \E size \in Sizes :
          screen = [given |-> {}, open |-> {}, size |-> [id \in Ids |-> size],
                    failed |-> {}, now |-> 0, asked |-> FALSE]

LoadPlugin(id, c) ==
    LET size == screen.size[id]
    IN  /\ id \notin screen.given
        /\ Happens("loaded late") \/ ~Reloading
        /\ tasks' = [tasks EXCEPT ![id] =
              Task("start", {id}, size,
                   <<Step("load", id, c), Step("put", id, c), Step("clone", id, c),
                     Step("loaded", id, None), Step("done", None, None)>>)]
        /\ bridge' = [bridge EXCEPT !.loading = @ \cup {id},
                                    !.events[id] = {}, !.sizes[id] = size]
        /\ screen' = [screen EXCEPT !.open = @ \cup {id}, !.given = @ \cup {id}]

(* For a client that is connected, or the first one, who is not yet.        *)
Load(id, c) ==
    /\ Requested
    /\ c \in Connected \/ bridge.connected = <<>>
    /\ LoadPlugin(id, c)
    /\ UNCHANGED <<running, cache, file, toPlugins>>

Unload(id) ==
    /\ Requested /\ id \in screen.open
    /\ \/ Happens("closed early")
       \/ id \notin bridge.loading /\ \A w \in Ids : Busy(w) => id \notin tasks[w].ids
    /\ running' = [running EXCEPT ![id] = [c \in Clients |-> None]]
    /\ screen' = [screen EXCEPT !.open = @ \ {id}]
    /\ UNCHANGED <<bridge, cache, file, tasks, toPlugins>>

(* The plugins of the map r are listed once for each client, and the first  *)
(* is reloaded, then the others, as often as they are listed.  While one of *)
(* them is being loaded, the reload is put off.                            *)
Listings(r) ==
    {[i \in DOMAIN keys |-> keys[i][1]] : keys \in SetToSeqs(InstancesIn(r))}

ReloadPlugin(b, r) ==
    LET ids == RunningIn(r)
        ReloadInOrder(listed) ==
            LET others == Others(listed, listed[1])
            IN  Task("reload", ids, None,
                     <<Step("again", listed[1], None)>>
                       \o [i \in DOMAIN others |-> Step("memory", others[i], None)]
                       \o <<Step("done", None, None)>>)
        SizesIn(id) == UNION {SizesOf(r[id][c]) : c \in {c \in Clients : r[id][c] # None}}
    IN  IF b.loading # {}
        THEN bridge' = [b EXCEPT !.pending = TRUE] /\ UNCHANGED tasks
        ELSE \E listed \in Listings(r), size \in [ids -> Sizes] :
                /\ \A id \in ids : size[id] \in SizesIn(id)
                /\ tasks' = [tasks EXCEPT ![listed[1]] = ReloadInOrder(listed)]
                /\ bridge' = [b EXCEPT
                      !.loading = {listed[1]},
                      !.events = [id \in Ids |-> IF id \in ids THEN {} ELSE @[id]],
                      !.sizes = [id \in Ids |-> IF id \in ids THEN size[id] ELSE @[id]]]

(* The file has been edited.  If no plugin runs it, one is started, with    *)
(* the module in the cache, if there is one, for the first client: without  *)
(* any, nothing is done.                                                   *)
Reload(id) ==
    /\ Requested
    /\ Happens("deserted") \/ bridge.connected # <<>>
    /\ IF bridge.loading = {} /\ RunningIn(running) = {}
       THEN /\ bridge.locked = None /\ bridge.connected # <<>>
            /\ LoadPlugin(id, Head(bridge.connected))
            /\ file' = IF cache = None \/ Happens("edited") THEN file + 1 ELSE file
       ELSE /\ ReloadPlugin(bridge, running)
            /\ file' = file + 1 /\ UNCHANGED screen
    /\ UNCHANGED <<running, cache, toPlugins>>

(* The plugins are listed first, and the client last.                      *)
AddClient(c) ==
    /\ Requested /\ c \notin Connected
    /\ Happens("came late") \/ ~Reloading
    /\ \E order \in SetToSeqs(RunningIn(running)) :
          tasks' = [tasks EXCEPT ![Main] =
              Task("client", {}, None,
                   FlattenSeq([i \in DOMAIN order |-> <<Step("copy", order[i], c),
                                                        Step("put", order[i], c)>>])
                     \o <<Step("push", None, c)>>)]
    /\ UNCHANGED <<bridge, running, cache, file, toPlugins, screen>>

RemoveClient(c) ==
    /\ Requested /\ c \in Connected /\ bridge.locked = None
    /\ Happens("deserted") \/ Connected # {c} \/ ~(Reloading \/ bridge.pending)
    /\ bridge' = [bridge EXCEPT !.connected = Others(@, c)]
    /\ UNCHANGED <<running, cache, file, tasks, toPlugins, screen>>

(* Each instance gets a task with a number, so that the last one wins.      *)
Resized(instances, size) ==
    [c \in Clients |->
        LET i == instances[c]
        IN  IF i = None THEN None
            ELSE [i EXCEPT !.resizes = @ \cup {<<i.next, size>>}, !.next = @ + 1]]

ResizePlugin(id, size) ==
    /\ Requested /\ id \in screen.open /\ size # screen.size[id]
    /\ screen' = [screen EXCEPT !.size[id] = size]
    /\ IF bridge.sizes[id] = None
       THEN running' = [running EXCEPT ![id] = Resized(@, size)] /\ UNCHANGED bridge
       ELSE bridge' = [bridge EXCEPT !.sizes[id] = size] /\ UNCHANGED running
    /\ UNCHANGED <<cache, file, tasks, toPlugins>>

(* Each instance of a client in C gets a task.                             *)
Told(instances, C, news) ==
    [c \in Clients |->
        LET i == instances[c]
        IN  IF i = None \/ c \notin C THEN i ELSE [i EXCEPT !.news = @ \cup news]]

UpdatePlugins(news) ==
    /\ running' = [id \in Ids |-> IF bridge.events[id] # None THEN running[id]
                                  ELSE Told(running[id], Clients, {news})]
    /\ bridge' = [bridge EXCEPT !.events =
                     [id \in Ids |-> IF @[id] = None THEN None ELSE @[id] \cup {news}]]
    /\ UNCHANGED <<cache, file, tasks, toPlugins>>

Update ==
    /\ Requested
    /\ UpdatePlugins(screen.now + 1)
    /\ screen' = [screen EXCEPT !.now = @ + 1]

(* The screen thread answers RequestStateUpdateForPlugins.                  *)
UpdateAgain ==
    /\ MainIsIdle /\ screen.asked
    /\ UpdatePlugins(screen.now)
    /\ screen' = [screen EXCEPT !.asked = FALSE]
    /\ UNCHANGED requests

(* mutant: a plugin that was reloaded with others is forgotten             *)
StillLoadingAlone(loading, ids) == IF Cardinality(ids) = 1 THEN loading \ ids ELSE loading
StillLoading(loading, ids) == loading \ ids

(* What was kept for the plugins is given to them; then the reload that was *)
(* put off begins, if any of them still runs.                              *)
ApplyCachedEvents ==
    /\ MainIsIdle /\ toPlugins # <<>> /\ bridge.locked = None
    /\ toPlugins' = Tail(toPlugins)
    /\ LET ids == Head(toPlugins)
           Without(f) == [id \in Ids |-> IF id \in ids THEN None ELSE f[id]]
           b == [bridge EXCEPT !.events = Without(@), !.sizes = Without(@),
                               !.loading = StillLoading(@, ids)]
           TellAll(id) == IF bridge.events[id] = None THEN running[id]
                          ELSE Told(running[id], Connected, bridge.events[id])
           Give(id) == IF bridge.sizes[id] = None THEN TellAll(id)
                       ELSE Resized(TellAll(id), bridge.sizes[id])
           r == [id \in Ids |-> IF id \in ids THEN Give(id) ELSE running[id]]
           putOff == bridge.pending /\ bridge.loading \cap ids # {}
           ready == [b EXCEPT !.pending = @ /\ ~putOff]
       IN  /\ running' = r
           /\ IF putOff /\ (ready.loading # {} \/ RunningIn(r) # {})
              THEN ReloadPlugin(ready, r)
              ELSE bridge' = ready /\ UNCHANGED tasks
    /\ UNCHANGED <<cache, file, screen, requests>>

-----------------------------------------------------------------------------
(* Tasks                                                                   *)

Current(w) == Head(tasks[w].steps)
Does(w, do) == Busy(w) /\ Current(w).do = do

Rest(w) == [tasks[w] EXCEPT !.steps = Tail(@)]
Goes(w, task) == tasks' = [tasks EXCEPT ![w] = task]

CopyTo(id, clients) ==
    FlattenSeq([i \in DOMAIN clients |-> <<Step("copy", id, clients[i]),
                                           Step("put", id, clients[i])>>])

(* An error ends the thread, or what the task does for one plugin; the      *)
(* plugins after one that could not be reloaded are not either.            *)
Fails(w) ==
    LET t == tasks[w]
        After == {i \in DOMAIN t.steps : i > 1 /\ t.steps[i].do \in {"memory", "done"}}
        next == IF t.for = "others" THEN Min(After) ELSE Len(t.steps)
    IN  /\ Goes(w, [t EXCEPT !.steps = SubSeq(@, next, Len(@)), !.module = None])
        /\ screen' = [screen EXCEPT !.failed =
                         @ \cup (IF t.for = "others" THEN {Current(w).id} ELSE t.ids)]
        /\ bridge' = [bridge EXCEPT !.locked = IF @ = w THEN None ELSE @]
        /\ UNCHANGED <<running, cache, file, toPlugins, requests>>

FailsInMain ==
    /\ bridge' = [bridge EXCEPT !.up = FALSE]
    /\ UNCHANGED <<running, cache, file, tasks, toPlugins, screen, requests>>

(* load_module_from_memory, from the cache on disk, or compile_module       *)
LoadModule(w) ==
    /\ Does(w, "load")
    /\ Goes(w, [Rest(w) EXCEPT !.module = IF cache # None THEN cache ELSE file])
    /\ cache' = None
    /\ UNCHANGED <<bridge, running, file, toPlugins, screen, requests>>

(* mutant: the module is not kept                                          *)
CompileNothing(w) ==
    /\ Does(w, "compile")
    /\ Goes(w, Rest(w))
    /\ UNCHANGED <<bridge, running, cache, file, toPlugins, screen, requests>>

CompileModule(w) ==
    /\ Does(w, "compile")
    /\ \/ /\ Goes(w, [Rest(w) EXCEPT !.module = file])
          /\ UNCHANGED <<bridge, running, cache, file, toPlugins, screen, requests>>
       \/ Happens("broken build") /\ Fails(w)

Takes(w) ==
    \/ Happens("module taken")
    \/ \A v \in Workers \ {w} : tasks[v].module = None

Fail(w) == IF w = Main THEN FailsInMain ELSE Fails(w)

LoadModuleFromMemory(w, task) ==
    IF cache = None THEN Fail(w)
    ELSE /\ Goes(w, [task EXCEPT !.module = cache])
         /\ cache' = None
         /\ UNCHANGED <<bridge, running, file, toPlugins, screen, requests>>

Take(w) ==
    /\ Does(w, "take") /\ Takes(w)
    /\ LoadModuleFromMemory(w, Rest(w))

(* The size is that of any instance of the plugin.                         *)
Copy(w) ==
    /\ Does(w, "copy") /\ Takes(w)
    /\ LET instances == {running[Current(w).id][c] : c \in Clients} \ {None}
       IN  IF instances = {} THEN Fail(w)
           ELSE \E i \in instances : \E size \in SizesOf(i) :
                   LoadModuleFromMemory(w, [Rest(w) EXCEPT !.size = size])

(* mutant: the module is not given back                                    *)
PutOnly(w) ==
    /\ Does(w, "put")
    /\ LET s == Current(w) IN
       running' = [running EXCEPT ![s.id][s.client] =
                      NewInstance(tasks[w].module, tasks[w].size)]
    /\ Goes(w, [Rest(w) EXCEPT !.module = None])
    /\ UNCHANGED <<bridge, cache, file, toPlugins, screen, requests>>

(* create_plugin_environment and load_plugin_instance.                      *)
Put(w) ==
    /\ Does(w, "put")
    /\ LET s == Current(w) IN
       running' = [running EXCEPT ![s.id][s.client] =
                      NewInstance(tasks[w].module, tasks[w].size)]
    /\ cache' = tasks[w].module
    /\ Goes(w, [Rest(w) EXCEPT !.module = None])
    /\ UNCHANGED <<bridge, file, toPlugins, screen, requests>>

(* mutant: the other clients get none                                      *)
CloneNone(w) ==
    /\ Does(w, "clone") /\ bridge.locked = None
    /\ Goes(w, Rest(w))
    /\ UNCHANGED <<bridge, running, cache, file, toPlugins, screen, requests>>

(* clone_instance_for_other_clients, with the list of clients locked.      *)
Clone(w) ==
    /\ Does(w, "clone") /\ bridge.locked = None
    /\ Happens("came late") \/ ~Busy(Main)
    /\ LET s == Current(w)
           others == Others(bridge.connected, s.client)
       IN  Goes(w, [Rest(w) EXCEPT !.steps =
                       CopyTo(s.id, others) \o <<Step("unlock", s.id, None)>> \o @])
    /\ bridge' = [bridge EXCEPT !.locked = w]
    /\ UNCHANGED <<running, cache, file, toPlugins, screen, requests>>

Unlock(w) ==
    /\ Does(w, "unlock")
    /\ bridge' = [bridge EXCEPT !.locked = None]
    /\ Goes(w, Rest(w))
    /\ UNCHANGED <<running, cache, file, toPlugins, screen, requests>>

(* The first client's instance is taken out, and it is the first to get a   *)
(* new one; the others get it from that.                                   *)
TakeOut(w, for, how) ==
    LET id == Current(w).id
        first == Head(bridge.connected)
    IN  IF bridge.connected = <<>> \/ running[id][first] = None THEN Fails(w)
        ELSE \E size \in SizesOf(running[id][first]) :
                /\ running' = [running EXCEPT ![id][first] = None]
                /\ Goes(w, [tasks[w] EXCEPT
                      !.for = for, !.size = size,
                      !.steps = <<Step(how, id, first), Step("put", id, first)>>
                                  \o CopyTo(id, Tail(bridge.connected))
                                  \o <<Step("loaded", id, None)>> \o Tail(@)])
                /\ UNCHANGED <<bridge, cache, file, toPlugins, screen, requests>>

(* PluginLoader::reload_plugin, and reload_plugin_from_memory               *)
ReloadFirst(w) ==
    Does(w, "again") /\ bridge.locked = None /\ TakeOut(w, "reload", "compile")
ReloadFromMemory(w) ==
    Does(w, "memory") /\ bridge.locked = None /\ TakeOut(w, "others", "take")

Loaded(w) ==
    /\ Does(w, "loaded")
    /\ screen' = [screen EXCEPT !.asked = TRUE, !.failed = @ \ {Current(w).id}]
    /\ Goes(w, Rest(w))
    /\ UNCHANGED <<bridge, running, cache, file, toPlugins, requests>>

Done(w) ==
    /\ Does(w, "done")
    /\ toPlugins' = Append(toPlugins, tasks[w].ids)
    /\ Goes(w, Task("client", {}, None, <<>>))
    /\ UNCHANGED <<bridge, running, cache, file, screen, requests>>

(* The client is listed, and the screen asked for the news.                 *)
Push ==
    /\ Does(Main, "push") /\ bridge.locked = None
    /\ bridge' = [bridge EXCEPT !.connected = Append(@, Current(Main).client)]
    /\ screen' = [screen EXCEPT !.asked = TRUE]
    /\ Goes(Main, Task("client", {}, None, <<>>))
    /\ UNCHANGED <<running, cache, file, toPlugins, requests>>

-----------------------------------------------------------------------------
(* The tasks that tell an instance news, and those that resize it          *)

TellsNews(id, c) ==
    /\ running[id][c] # None
    /\ \E news \in running[id][c].news :
          /\ Happens("reordered") \/ news = Min(running[id][c].news)
          /\ running' = [running EXCEPT ![id][c].news = @ \ {news},
                                        ![id][c].told = news]
    /\ UNCHANGED <<bridge, cache, file, tasks, toPlugins, screen, requests>>

(* mutant: an older size is taken for a newer                              *)
AnyEventId(last, n) == TRUE
ApplyEventId(last, n) == n >= last

(* An instance once the task with the resize r has run.                    *)
Tried(i, r) ==
    LET left == [i EXCEPT !.resizes = i.resizes \ {r}]
    IN  IF ApplyEventId(i.last, r[1])
        THEN [left EXCEPT !.size = r[2], !.last = r[1]] ELSE left

Resizes(id, c) ==
    /\ running[id][c] # None
    /\ \E r \in running[id][c].resizes :
          running' = [running EXCEPT ![id][c] = Tried(running[id][c], r)]
    /\ UNCHANGED <<bridge, cache, file, tasks, toPlugins, screen, requests>>

-----------------------------------------------------------------------------
Request ==
    \/ \E id \in Ids :
          \/ \E c \in Clients : Load(id, c)
          \/ Unload(id) \/ Reload(id)
          \/ \E size \in Sizes : ResizePlugin(id, size)
    \/ \E c \in Clients : AddClient(c) \/ RemoveClient(c)
    \/ Update

TaskStep(w) ==
    \/ LoadModule(w) \/ CompileModule(w) \/ Take(w) \/ Copy(w) \/ Put(w)
    \/ Clone(w) \/ Unlock(w) \/ ReloadFirst(w) \/ ReloadFromMemory(w)
    \/ Loaded(w) \/ Done(w)

MainStep == Push \/ UpdateAgain \/ ApplyCachedEvents

Events == \E id \in Ids, c \in Clients : TellsNews(id, c) \/ Resizes(id, c)

Next ==
    /\ bridge.up
    /\ \/ Request \/ MainStep \/ Events
       \/ \E w \in Workers : TaskStep(w)

Spec == Init /\ [][Next]_vars

(* No plugin has failed to start or to be reloaded, and no client has ended *)
(* the thread by coming.                                                   *)
NothingFails == bridge.up /\ screen.failed = {}

(* The behaviours up to the first failure: nothing is promised of a plugin  *)
(* that is reloaded, or of a client that comes, after that.                *)
SpecToFailure == Init /\ [][NothingFails /\ Next]_vars

-----------------------------------------------------------------------------
TypeOK ==
    /\ bridge \in Bridges /\ IsInjective(bridge.connected)
    /\ running \in [Ids -> [Clients -> Maybe(Instances)]]
    /\ cache \in Maybe(Versions) /\ file \in Versions
    /\ tasks \in [Workers -> Tasks]
    /\ toPlugins \in Seq(SUBSET Ids)
    /\ screen \in Screens
    /\ requests \in 0 .. MaxRequests

(* A file that does not compile, or a module that is looked for in the      *)
(* cache while a task, or the thread, has it in its hands                  *)
Mishap(w) ==
    \/ Happens("broken build") /\ CompileModule(w)
    \/ /\ Take(w) \/ Copy(w)
       /\ cache = None /\ \E v \in Workers \ {w} : tasks[v].module # None

(* The first plugin that fails to start or to be reloaded, and the client   *)
(* that ends the thread by coming, do so by such a mishap and for no other  *)
(* reason: the module is never lost, and each instance that is needed runs. *)
FailsByMishap == [][NothingFails' \/ \E w \in Workers : Mishap(w)]_vars

(* Nothing is under way.                                                   *)
Settled ==
    /\ \A w \in Workers : ~Busy(w)
    /\ toPlugins = <<>> /\ ~screen.asked
    /\ \A id \in Ids, c \in Clients :
          running[id][c] # None => /\ running[id][c].news = {}
                                   /\ running[id][c].resizes = {}

(* Each connected client has its instance of each plugin that has a pane,   *)
(* and no plugin runs without a pane.                                      *)
ClientsHaveInstances ==
    Settled =>
        /\ \A id \in screen.open \ screen.failed, c \in Connected : running[id][c] # None
        /\ RunningIn(running) \subseteq screen.open

(* And it runs the file as it was last reloaded, has the size of its pane,  *)
(* and knows what there is to know.                                        *)
InstancesAreCurrent ==
    Settled =>
        \A id \in screen.open, c \in Connected :
            LET i == running[id][c]
            IN  i # None /\ id \notin screen.failed =>
                    /\ i.code = file
                    /\ i.size = screen.size[id]
                    /\ i.told = screen.now

(* The thread and the tasks never wait for each other, and when they stop   *)
(* there is nothing left that is being loaded, put off or kept for later.   *)
Onward == MainStep \/ \E w \in Workers : TaskStep(w)

LoadingEnds ==
    bridge.up /\ ~ENABLED <<Onward>>_vars =>
        /\ \A w \in Workers : ~Busy(w)
        /\ bridge.loading = {} /\ ~bridge.pending
        /\ \A id \in Ids : bridge.events[id] = None /\ bridge.sizes[id] = None

=============================================================================
