------------------------------ MODULE Readiness ------------------------------
(* The runtime configuration as far as it decides what Start launches, and the *)
(* state behind the readiness endpoint: a status for each of several checks,   *)
(* and two flags.  main has verified the data directory and loaded the server  *)
(* before Start.  UDP cannot be enabled in Teamlancer mode (Validate).         *)
EXTENDS Naturals

CONSTANT Configs

ASSUME ConfigAssumption ==
    Configs \subseteq [teamlancer : BOOLEAN,  \* TeamlancerMode
                       web : BOOLEAN,         \* EnableWeb; without Teamlancer, not NoWebServer
                       public : BOOLEAN,      \* EnablePublicWebSocket
                       raw : BOOLEAN,         \* EnableRawMumbleTCP
                       secret : BOOLEAN]      \* the keys of the authenticator are in the environment

VARIABLES config, checks, started, shuttingDown

readyVars == <<config, checks, started, shuttingDown>>

\* What Start opens, and whether the WebSocket endpoint accepts upgrades.
UDP == ~config.teamlancer
TLS == config.teamlancer => config.raw
Public == config.teamlancer => config.public

Names == {"dataDirectory", "voiceEngine", "websocket", "auth", "webListener", "rawMumbleTcpListener",
          "udp", "virtualServer"}

\* newAppRuntimeState, and the two checks that main sets before Start.
ReadyInit ==
    /\ config \in Configs
    /\ checks = [n \in Names |-> IF n \in {"dataDirectory", "virtualServer"} THEN "ok"
                                 ELSE IF n = "udp" THEN "disabled" ELSE "starting"]
    /\ started = FALSE /\ shuttingDown = FALSE

\* What Start sets when all listeners are open; nothing can fail in between, and
\* nobody is told that the server is ready before it is marked.
ListenChecks ==
    [n \in Names |->
        IF \/ n = "webListener" /\ config.web
           \/ n = "websocket" /\ config.web /\ config.public
           \/ n = "rawMumbleTcpListener" /\ TLS
           \/ n = "voiceEngine" /\ config.teamlancer
        THEN "ok"
        ELSE IF n = "websocket" /\ config.web THEN "disabled" ELSE checks[n]]

\* What initPerLaunchData sets when the authenticator is there.
LaunchChecks ==
    [n \in Names |->
        IF /\ config.teamlancer
           /\ \/ n = "auth"
              \/ n = "websocket" /\ config.web /\ config.public
        THEN "ok" ELSE checks[n]]

\* The checks that have to be "ok".
requiredChecks ==
    {"dataDirectory", "virtualServer"}
    \cup IF config.teamlancer
         THEN {n \in Names : \/ n \in {"voiceEngine", "auth"}
                             \/ n \in {"websocket", "webListener"} /\ config.web
                             \/ n = "rawMumbleTcpListener" /\ config.raw}
         ELSE {"webListener", "rawMumbleTcpListener"}

IsReady ==
    /\ started /\ ~shuttingDown
    /\ \A n \in requiredChecks : checks[n] = "ok"
    /\ config.teamlancer => checks["udp"] = "disabled"
=============================================================================
