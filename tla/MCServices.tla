----------------------------- MODULE MCServices -----------------------------
(***************************************************************************)
(* Instances of Services for TLC, and the other services beside the call   *)
(* path, each on its own: `focus` is the one that moves in a behaviour.    *)
(* Those that Services does not compose share the slots: each finds its    *)
(* variables in the slots its instance names.                              *)
(***************************************************************************)
EXTENDS MCSamples, Services

CONSTANTS
  r1, r2, r3, sa, sd, m1, m2, f1, f2, c1, c2, c3, b1, b2, b3, g1, g2, g3, u1, u2, e1, e2, p1, p2

VARIABLES
  \* The slots: the variables of the service in focus, None beyond its own.
  v1, v2, v3, v4, v5, v6, v7, v8, v9, v10, v11, v12, v13, v14, v15, v16

(* What Services is instantiated with.                                     *)
MCAttempts   == (sa :> 2) @@ (sd :> 1)
MCAudience   == (m1 :> {sa}) @@ (m2 :> {sd})
MCModes      == (m1 :> {"emit"}) @@ (m2 :> {"emit", "sequential"})
MCSubscribed == <<sa>>
MCNoTime     == -1
MCPriorityOf == (g1 :> 1) @@ (g2 :> 2) @@ (g3 :> 2)
MCNameOf     == (g1 :> "n") @@ (g2 :> "n") @@ (g3 :> "o")
MCIdentityOf == (g1 :> "i") @@ (g2 :> "i") @@ (g3 :> None)
MCDiscipline == ~Loose
MCAsks       == (u1 :> FirstAsks) @@ (u2 :> SecondAsks)
MCBase ==
  [k \in TheControlKeys |-> CASE k = "limit" -> "0" [] k \in {"enabled", "events"} -> "true" [] OTHER -> None]
MCCovers     == ("a*" :> {"admin"}) @@ ("**" :> {"admin", "db", "@external"})
MCHooks      == <<"outer", "inner">>
MCRunOptions == TheRunOptions(None)
MCDependsOn  == ("a" :> {"b"}) @@ ("b" :> {})

Configuring == INSTANCE Configuration WITH
  Typed <- {Depth, Exporter, Endpoint}, TypedDefault <- TheTypedDefaults,
  Defaults <- Root :> Text(1), Required <- {Version}, PathTyped <- {Root},
  Declared <- {Depth, Exporter, Endpoint, Root, Version, Size},
  Namespaces <- TheNamespaces, Builtin <- {"sys_modules", "observability"}, Width <- 4,
  Documents <- TheTextFiles, Environments <- TheEnvironments, Writes <- TheWrites, Mounts <- TheMounts,
  Fits <- FitsLeaf, Legal <- LegalLeaf, Consistent <- LeavesAgree, Absent <- None, MaxGeneration <- 3,
  namespaces <- v1, environ <- v2, config <- v3, writes <- v4, source <- v5, checked <- v6

Discovering == INSTANCE Discovery WITH
  Disks <- TheDisks, Calls <- TheCalls, Batches <- TheBatches,
  Rivals <- {<<"a", "b">>, <<"a", "c">>, <<"B">>}, Ranking <- TheRanking, Lower <- LowerId,
  Reserved <- {"system"}, LongId <- 4, Shelved <- {<<"a">>}, Versions <- TheVersions, Hints <- TheHints,
  Items <- {1, 2}, Nothing <- None,
  disk <- v1, root <- v2, unread <- v3, visited <- v4, discovered <- v5, verdict <- v6, batch <- v7,
  progress <- v8, owner <- v9, shelf <- v10

Observing == INSTANCE CallObservers WITH
  Executions <- {e1, e2}, TraceOf <- (e1 :> "t") @@ (e2 :> "t"),
  Nestings <- {(e1 :> None) @@ (e2 :> caller) : caller \in {e1, None}},
  Strategies <- {"proportional", "error_first"}, Gates <- {"outer", "inner"},
  MaxRetries <- (e1 :> 1) @@ (e2 :> 0), Nothing <- None,
  setup <- v1, spans <- v2, sampling <- v3, starts <- v4, execution <- v5, taken <- v6,
  exports <- v7, counted <- v8, disturbed <- v9

Batching == INSTANCE SpanBatches WITH
  Producers <- {p1, p2}, SpansOf <- (p1 :> <<"a">>) @@ (p2 :> <<"b">>), Capacities <- {1, 2},
  MaxBatch <- 1, Forcers <- {"f"}, Nobody <- None,
  capacity <- v1, channel <- v2, queueSize <- v3, dropped <- v4, ended <- v5, receiver <- v6,
  flush <- v7, signal <- v8, signalled <- v9, exported <- v10, lost <- v11, unhandled <- v12,
  promised <- v13

Remembering == INSTANCE ErrorRecords WITH
  Fingerprints <- {"a1", "a2", "b1"}, ErrorModule <- ("a1" :> "a") @@ ("a2" :> "a") @@ ("b1" :> "b"),
  Limits <- {<<1, 2>>, <<2, 1>>, <<2, 2>>, <<0, 1>>}, MaxTime <- 2, MaxRecords <- 3,
  Ordered <- ~Loose, Nothing <- None,
  limits <- v1, fpIndex <- v2, moduleIndex <- v3, heap <- v4, seq <- v5, victims <- v6, saves <- v7,
  backend <- v8, records <- v9

Counting == INSTANCE UsageReport WITH
  Kinds <- {[caller |-> "c", ok |-> TRUE], [caller |-> None, ok |-> FALSE]},
  TicksPerHour <- 2, LastTick <- 3, MaxPerBucket <- 1, MaxBuckets <- 1, HoursShown <- 2,
  Periods <- {1, 3}, MaxHistory <- 3, Nothing <- None,
  buckets <- v1, history <- v2, ticks <- v3, report <- v4

Alerting == INSTANCE HealthAlerts WITH
  Calls <- {c1, c2, c3}, Latencies <- {1, 3}, Bounds <- <<1, 2>>,
  ErrorRateOf <- 80, LatencyLimit <- 2, Nothing <- None,
  countsFirst <- v1, counters <- v2, durations <- v3, hook <- v4, alerted <- v5, alerts <- v6,
  apart <- v7

Watching == INSTANCE RegistryWatch WITH
  Watchers <- {"w1", "w2"}, Unwatchers <- {"u1"}, Searches <- {"s1"}, FileEvents <- {"made", "read"}, Relevant <- {"made"},
  MaxReports <- 1, Discoverers <- {"old", "new"}, First <- "old",
  roots <- v1, explicit <- v2, configuring <- v3, watchCall <- v4, unwatchCall <- v5,
  watcherSlot <- v6, handleSlot <- v7, feed <- v8, watchLoop <- v9, discovererSlot <- v10,
  latest <- v11, lent <- v12, marked <- v13, reported <- v14, applied <- v15, missed <- v16

Noticing == INSTANCE RegistryNotices WITH
  Old <- "h0", Changes <- {"h1", "h2"}, KindsOf <- ("h1" :> {"remove", "version"}) @@ ("h2" :> {"register", "version"}),
  VersionOf <- ("h0" :> 1) @@ ("h1" :> 2) @@ ("h2" :> 1),
  NoticeOf <- ("h0" :> "soon") @@ ("h1" :> None) @@ ("h2" :> "soon"),
  Listeners <- {"l1", "l2"}, WantedBy <- ("l1" :> {"register", "unregister"}) @@ ("l2" :> {"register"}),
  Subscribed <- [register |-> <<"l2">>, unregister |-> <<>>],
  FailHooks <- {"o1"}, Readers <- {"d1", "d2"}, Ephemeral <- TRUE,
  visible <- v1, coexisting <- v2, published <- v3, change <- v4, callbacks <- v5,
  failCallbacks <- v6, offered <- v7, heard <- v8, failHeard <- v9, wired <- v10, emitted <- v11,
  errorLog <- v12, due <- v13, reading <- v14, deprecationWarned <- v15, warnings <- v16

Capturing == INSTANCE DataCapture WITH
  Payloads <- ThePayloads, Later <- {1, 2}, Outputs <- TheOutputs, ChunkLists <- TheChunkLists, Depths <- {0}, DefaultDepth <- 1,
  Schema <- TheSchema, Contracts <- {<<"tree", "whole">>, <<None, "tree">>, <<"whole", None>>},
  Settings <- TheSettings, Builders <- TheBuilders, Covers <- EntryCovers, Invalid <- {"("},
  DefaultKeys <- {"_secret_*", "password"}, NeverRedact <- {"trace_id"}, SecretNamed <- {"_secret_a"},
  Place <- ("0" :> 1) @@ ("1" :> 2), MaxRetries <- 1,
  redactionRules <- v1, logger <- v2, contract <- v3, depthCap <- v4, inputs <- v5, output <- v6,
  capturedInputs <- v7, capturedOutput <- v8, stageOf <- v9, rewritten <- v10, retried <- v11,
  logged <- v12, merged <- v13

SchemaFile(from, name) == TheFileNamed(from, name, None)
Schemata == INSTANCE SchemaLoading WITH
  Libraries <- TheLibraries(Loose), ModuleIds <- {"ma", "mb", "shared"}, FileOf <- ("ma" :> "a") @@ ("mb" :> "b") @@ ("shared" :> None),
  Registrations <- TheRegistered, FileNamed <- SchemaFile, Natives <- TheNatives(None),
  SchemaStrategies <- {"yaml_first", "native_first", "yaml_only"}, MaxRefDepth <- 3, MaxSchemaLoads <- 2, Unfolding <- 4,
  library <- v1, schemaStrategy <- v2, schemas <- v3, answer <- v4, loads <- v5

(* The slots behind the first n, and that they hold None.                  *)
Rest13 == <<v14, v15, v16>>
Rest12 == <<v13, Rest13>>
Rest10 == <<v11, v12, Rest12>>
Rest9  == <<v10, Rest10>>
Rest7  == <<v8, v9, Rest9>>
Rest6  == <<v7, Rest7>>
Rest5  == <<v6, Rest6>>
Rest4  == <<v5, Rest5>>
Slots  == <<v1, v2, v3, v4, Rest4>>
Blank13 == v14 = None /\ v15 = None /\ v16 = None
Blank12 == v13 = None /\ Blank13
Blank10 == v11 = None /\ v12 = None /\ Blank12
Blank9  == v10 = None /\ Blank10
Blank7  == v8 = None /\ v9 = None /\ Blank9
Blank6  == v7 = None /\ Blank7
Blank5  == v6 = None /\ Blank6
Blank4  == v5 = None /\ Blank5
NoSlot  == v1 = None /\ v2 = None /\ v3 = None /\ v4 = None /\ Blank4

Composed ==
  {"reaper", "events", "module breaker", "subscriber breaker", "middlewares", "control", "acl",
   "strategy", "engine"}

(* One service moves in a behaviour.                                       *)
MCInit ==
  /\ Init
  /\ \/ focus \in Composed /\ NoSlot
     \/ focus = "config" /\ Configuring!Init /\ Blank6
     \/ focus = "discovery" /\ Discovering!Init /\ Blank10
     \/ focus = "observers" /\ Observing!Init /\ Blank9
     \/ focus = "spans" /\ Batching!Init /\ Blank13
     \/ focus = "errors" /\ Remembering!Init /\ Blank9
     \/ focus = "usage" /\ Counting!Init /\ Blank4
     \/ focus = "health" /\ Alerting!Init /\ Blank7
     \/ focus = "watch" /\ Watching!Init
     \/ focus = "notices" /\ Noticing!Init
     \/ focus = "capture" /\ Capturing!Init /\ Blank13
     \/ focus = "schemas" /\ Schemata!Init /\ Blank5

MCNext ==
  \/ Next /\ UNCHANGED Slots
  \/ /\ focus \notin Composed /\ UNCHANGED vars
     /\ \/ focus = "config" /\ Configuring!Next /\ UNCHANGED Rest6
        \/ focus = "discovery" /\ Discovering!Next /\ UNCHANGED Rest10
        \/ focus = "observers" /\ Observing!Next /\ UNCHANGED Rest9
        \/ focus = "spans" /\ Batching!Next /\ UNCHANGED Rest13
        \/ focus = "errors" /\ Remembering!Next /\ UNCHANGED Rest9
        \/ focus = "usage" /\ Counting!Next /\ UNCHANGED Rest4
        \/ focus = "health" /\ Alerting!Next /\ UNCHANGED Rest7
        \/ focus = "watch" /\ Watching!Next
        \/ focus = "notices" /\ Noticing!Next
        \/ focus = "capture" /\ Capturing!Next /\ UNCHANGED Rest13
        \/ focus = "schemas" /\ Schemata!Next /\ UNCHANGED Rest5

mcvars == <<vars, Slots>>

MCSpec == MCInit /\ [][MCNext]_mcvars

(* Each component keeps what its module promises of it.                    *)
ConfigCoherent ==
  /\ focus = "config" =>
       Configuring!LastWriteWins /\ Configuring!ReadersAgree /\ Configuring!AcceptedIsValid
  /\ focus = "schemas" => Schemata!ResolutionIsTrue
DiscoveryIsSound ==
  /\ focus = "discovery" =>
       /\ Discovering!ScanIsWhole /\ Discovering!OutcomeIsTrue /\ Discovering!RangesPin
       /\ Discovering!BatchIsWhole /\ Discovering!ShelfIsTidy
  /\ focus = "watch" => Watching!WatchIsSound
  /\ focus = "notices" => Noticing!NoticesAreSound
ScanIsWhole == focus = "discovery" => Discovering!ScanIsWhole
CallsAreObserved ==
  /\ focus = "observers" =>
       /\ Observing!TypeOK /\ Observing!TraceForgotten
       /\ Observing!SpansFollowCalls /\ Observing!CallsAreCounted
  /\ focus = "spans" => Batching!SpansAccounted /\ Batching!FlushIsTrue
  /\ focus = "capture" => Capturing!CapturesAreSound
RecordsAreTrue ==
  /\ focus = "errors" =>
       Remembering!HistoryIsBounded /\ Remembering!OldestGoes /\ Remembering!LatestIsSaved
  /\ focus = "usage" => Counting!LatestAreRetained /\ Counting!ReportAddsUp
  /\ focus = "health" =>
       Alerting!AlertsAlternate /\ Alerting!AlertsFollowRate /\ Alerting!EstimateCovers
=============================================================================
