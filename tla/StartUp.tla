------------------------------ MODULE StartUp ------------------------------
(***************************************************************************)
(* A process of neddit from its arguments to its exit: the configuration   *)
(* is checked, the parts are made one after the other, any of which may    *)
(* fail, requests are served, the background refresh is shut down.  The    *)
(* files of the two stores outlive the process, which may be started anew, *)
(* and may have been created by anyone.                                    *)
(***************************************************************************)
EXTENDS Naturals, FiniteSets

CONSTANTS
  Configs,     \* [web, api, feeds, shortlinks, video, key, faults, alias]
  MaxStarts,   \* bound of the processes one after the other
  None

StartAssumption ==
  Configs \subseteq [web : BOOLEAN, api : BOOLEAN, feeds : BOOLEAN, shortlinks : BOOLEAN, video : BOOLEAN,
                    key : {"none", "file", "short"}, faults : SUBSET STRING, alias : BOOLEAN]

VARIABLES
  mode,        \* "serve", "check" or "backup"
  config,      \* one of Configs; faults are values that are not allowed
  at,          \* the step that comes next, "exited" at the end
  running,     \* what this process holds
  routes,      \* what it answers
  files,       \* what the files of the stores are, by [version, kind]
  starts

vars == <<mode, config, at, running, routes, files, starts>>
-----------------------------------------------------------------------------
(* validate.                                                               *)
IsValid(c) ==
  /\ c.faults = {}
  /\ c.web \/ c.api
  /\ c.video => c.web

(* A store is its own file, though two paths may lead to one.              *)
Absent == [version |-> 0, kind |-> None]
File(store) == IF config.alias THEN "cache" ELSE store

(* Database::open: a file is taken if it is new or of this kind and version. *)
\* Mutant: only the version is looked at.
OpensAny(store) == files[File(store)].version <= 1
Opens(store) ==
  LET file == files[File(store)] IN file.version <= 1 /\ (file.version = 0 \/ file.kind = store)
Created(store) ==
  IF files[File(store)].version = 0
    THEN [files EXCEPT ![File(store)] = [version |-> 1, kind |-> store]] ELSE files

Init ==
  /\ mode \in {"serve", "check", "backup"} /\ config \in Configs
  /\ at = "load" /\ running = {} /\ routes = {} /\ starts = 1
  /\ files \in [{"cache", "definitions"} ->
       {Absent, [version |-> 1, kind |-> "cache"], [version |-> 1, kind |-> "definitions"], [version |-> 2, kind |-> "cache"]}]

(* An error of any step ends the process with it.                          *)
Exit == at' = "exited" /\ running' = {} /\ routes' = {}
Stay == UNCHANGED <<running, routes>>
Goes(step) == at' = step

Load ==
  /\ at = "load"
  /\ IF IsValid(config) /\ mode # "check" THEN Goes("log") /\ Stay ELSE Exit
  /\ UNCHANGED <<mode, config, files, starts>>

InitLogging ==
  /\ at = "log"
  /\ \/ Exit
     \/ Goes(IF mode = "backup" THEN "backup" ELSE "bind") /\ Stay
  /\ UNCHANGED <<mode, config, files, starts>>

(* A backup copies what is there to a file of its own.                     *)
BackUp ==
  /\ at = "backup" /\ Exit
  /\ files' = IF Opens("definitions") THEN Created("definitions") ELSE files
  /\ UNCHANGED <<mode, config, starts>>

Bind ==
  /\ at = "bind"
  /\ \/ Exit
     \/ Goes("signer") /\ running' = running \cup {"listener"} /\ UNCHANGED routes
  /\ UNCHANGED <<mode, config, files, starts>>

MakeSigner ==
  /\ at = "signer"
  /\ \/ config.key # "none" /\ Exit
     \/ config.key # "short" /\ Goes("cache") /\ Stay
  /\ UNCHANGED <<mode, config, files, starts>>

Open(store, next) ==
  IF Opens(store)
    THEN Goes(next) /\ files' = Created(store) /\ running' = running \cup {store} /\ UNCHANGED routes
    ELSE Exit /\ UNCHANGED files

OpenCache ==
  /\ at = "cache" /\ Open("cache", "shortlinks")
  /\ UNCHANGED <<mode, config, starts>>

OpenShortlinks ==
  /\ at = "shortlinks"
  /\ IF config.feeds /\ config.shortlinks THEN Open("definitions", "client")
     ELSE Goes("client") /\ Stay /\ UNCHANGED files
  /\ UNCHANGED <<mode, config, starts>>

(* RedditClient::new: from here on the credentials are refreshed.          *)
MakeClient ==
  /\ at = "client"
  /\ \/ Exit
     \/ Goes("video") /\ running' = running \cup {"refresh"} /\ UNCHANGED routes
  /\ UNCHANGED <<mode, config, files, starts>>

Routed ==
  {"/healthz"} \cup {"/media"}
    \cup (IF config.web THEN {"/", "/search", "/comments"} ELSE {})
    \cup (IF config.web /\ config.feeds THEN {"/feeds", "/feed", "/f"} ELSE {})
    \cup (IF config.web /\ config.video THEN {"/media/video/player"} ELSE {})
    \cup (IF config.video THEN {"/media/video"} ELSE {})
    \cup (IF config.api THEN {"/api"} ELSE {})
    \cup (IF config.api /\ config.feeds THEN {"/api/feed", "/api/feeds"} ELSE {})

(* The exclusions are compiled once more, as validate did; then all is     *)
(* there to serve with.                                                    *)
MakeVideo ==
  /\ at = "video"
  /\ Goes("serve") /\ routes' = Routed
  /\ running' = running \cup (IF config.video THEN {"videos"} ELSE {})
  /\ UNCHANGED <<mode, config, files, starts>>

(* Until a signal comes or the server fails.                               *)
Serve ==
  /\ at = "serve" /\ Goes("shutdown")
  /\ routes' = {} /\ running' = running \ {"listener"}
  /\ UNCHANGED <<mode, config, files, starts>>

Shutdown ==
  /\ at = "shutdown" /\ Exit
  /\ UNCHANGED <<mode, config, files, starts>>

(* The system kills a process whenever it likes; another one is started.   *)
Killed ==
  /\ at \notin {"exited", "load"} /\ starts < MaxStarts /\ Exit
  /\ UNCHANGED <<mode, config, files, starts>>

Restart ==
  /\ at = "exited" /\ starts < MaxStarts /\ starts' = starts + 1
  /\ mode' \in {"serve", "check", "backup"}
  /\ config' \in {c \in Configs : c.alias = config.alias}
  /\ at' = "load" /\ running' = {} /\ UNCHANGED <<routes, files>>

Next ==
  \/ Load \/ InitLogging \/ BackUp \/ Bind \/ MakeSigner \/ OpenCache \/ OpenShortlinks
  \/ MakeClient \/ MakeVideo \/ Serve \/ Shutdown \/ Killed \/ Restart

Spec == Init /\ [][Next]_vars
-----------------------------------------------------------------------------
(* What is served has all it needs: the routes of the configuration and no *)
(* others, with the parts behind them.                                     *)
ServesWithAllParts ==
  /\ routes # {} => {"listener", "cache", "refresh"} \subseteq running /\ mode = "serve" /\ (config.web \/ config.api)
  /\ "/media/video" \in routes => "videos" \in running /\ "/media/video/player" \in routes
  /\ "/feeds" \in routes /\ config.shortlinks => "definitions" \in running

(* A process that goes on after the refresh of the credentials has started *)
(* ends by way of its shutdown, unless it is killed; a check or a backup   *)
(* never starts it.                                                        *)
EndsInOrder ==
  /\ at = "exited" => running = {}
  /\ mode # "serve" => running = {}

(* No two stores write one file, whatever the paths are called and         *)
(* whatever earlier processes left behind.                                 *)
StoresAreApart ==
  \A store \in {"cache", "definitions"} \cap running : files[File(store)] = [version |-> 1, kind |-> store]

(* The program of main.rs, over any sequence of starts on the same files.  *)
StartIsOrderly == ServesWithAllParts /\ EndsInOrder /\ StoresAreApart
=============================================================================
