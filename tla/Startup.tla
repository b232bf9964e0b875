------------------------------ MODULE Startup ------------------------------
(***************************************************************************)
(* main() of game.cpp and the thread it detaches, with the two lazily      *)
(* created singletons they share: GameConfig (game_config.h) and           *)
(* ScriptEngine (script_engine.h).  Neither get_instance() is              *)
(* synchronised.  The build is unoptimised, so each access to the static   *)
(* pointer is one access to memory, in the order of the source.            *)
(*                                                                         *)
(* The queue of an engine is a Mailbox here: ExecGafq posts in one step    *)
(* and LoopExecute takes everything in one step.  ScriptEngine.tla shows   *)
(* that the engine's own code amounts to that.                             *)
(***************************************************************************)
EXTENDS Naturals, Sequences

CONSTANT MaxMsgs    \* bound: how many messages the server thread receives

ASSUME MaxMsgsAssumption == MaxMsgs \in Nat

VARIABLES
    pc,          \* pc[t]: where thread t is
    ret,         \* ret[t]: the statement that called get_instance()
    self,        \* self[t]: the engine that get_instance() returned to t
    cfg,         \* GameConfig::cfg, an index into configs, 0 for nullptr
    configs,     \* what the ptree of each GameConfig object holds
    script_eng,  \* ScriptEngine::script_eng, an index into engines or 0
    engines,     \* the ScriptEngine objects
    received,    \* number of messages the server thread has received
    executed,    \* the messages that LoopExecute has run, in order
    exit         \* why the process ended, or "running"

vars == <<pc, ret, self, cfg, configs, script_eng, engines, received,
          executed, exit>>

Threads == {"main", "server"}

\* What --props leads to: a usable file, one without the keys that main reads,
\* one without the port; or no ptree at all: the option is missing or names
\* no file, the file is not JSON, the option does not parse, or asking for the
\* file fails.
Files == {"good", "no_name", "no_port"}
NoFiles == {"no_props", "not_json", "bad_option", "fs_error"}

\* An engine as `new' leaves it: se_gafqState and the counters have no value
\* yet.  count and count2 change together here: counted is what has been added
\* to them, and reset says whether to zero or to an indeterminate value.
NewEngine == [state |-> "garbage", send_data |-> FALSE, reset |-> FALSE,
              counted |-> 0, queue |-> <<>>]

Init ==
    /\ pc = [t \in Threads |-> IF t = "main" THEN "load" ELSE "unborn"]
    /\ ret = [t \in Threads |-> "none"]
    /\ self = [t \in Threads |-> 0]
    /\ cfg = 0
    /\ configs = <<>>
    /\ script_eng = 0
    /\ engines = <<>>
    /\ received = 0
    /\ executed = <<>>
    /\ exit = "running"

Goto(t, label) == pc' = [pc EXCEPT ![t] = label]

\* Thread t calls a singleton's get_instance(), to go on at label.
Call(t, getter, label) ==
    /\ Goto(t, getter)
    /\ ret' = [ret EXCEPT ![t] = label]

-----------------------------------------------------------------------------
(* The two get_instance().                                                 *)

CheckConfig(t) ==
    /\ pc[t] = "config"
    /\ Goto(t, IF cfg = 0 THEN "new_config" ELSE ret[t])
    /\ UNCHANGED <<ret, self, cfg, configs, script_eng, engines, received,
                   executed, exit>>

CreateConfig(t) ==
    /\ pc[t] = "new_config"
    /\ configs' = Append(configs, "empty")
    /\ cfg' = Len(configs) + 1
    /\ Goto(t, ret[t])
    /\ UNCHANGED <<ret, self, script_eng, engines, received, executed, exit>>

\* Mutant: the test for nullptr is gone.
CheckEngineAlways(t) ==
    /\ pc[t] = "engine"
    /\ Goto(t, "new_engine")
    /\ UNCHANGED <<ret, self, cfg, configs, script_eng, engines, received,
                   executed, exit>>

CheckEngine(t) ==
    /\ pc[t] = "engine"
    /\ Goto(t, IF script_eng = 0 THEN "new_engine" ELSE "return")
    /\ UNCHANGED <<ret, self, cfg, configs, script_eng, engines, received,
                   executed, exit>>

CreateEngine(t) ==
    /\ pc[t] = "new_engine"
    /\ engines' = Append(engines, NewEngine)
    /\ script_eng' = Len(engines) + 1
    /\ Goto(t, "reset")
    /\ UNCHANGED <<ret, self, cfg, configs, received, executed, exit>>

\* The counters are those of whatever the pointer points to by now.
ResetCounts(t) ==
    /\ pc[t] = "reset"
    /\ engines' = [engines EXCEPT ![script_eng].counted = 0,
                                     ![script_eng].reset = TRUE]
    /\ Goto(t, "return")
    /\ UNCHANGED <<ret, self, cfg, configs, script_eng, received, executed,
                   exit>>

\* So is the engine that is returned.
ReturnEngine(t) ==
    /\ pc[t] = "return"
    /\ self' = [self EXCEPT ![t] = script_eng]
    /\ Goto(t, ret[t])
    /\ UNCHANGED <<ret, cfg, configs, script_eng, engines, received, executed,
                   exit>>

GetInstance(t) ==
    \/ CheckConfig(t) \/ CreateConfig(t)
    \/ CheckEngine(t) \/ CreateEngine(t) \/ ResetCounts(t) \/ ReturnEngine(t)

-----------------------------------------------------------------------------
(* The main thread.                                                        *)

\* Mutant: the server thread is started before the configuration is there.
LoadConfigWithServer(props) ==
    /\ pc["main"] = "load"
    /\ props = "no_props"
    /\ pc' = [pc EXCEPT !["main"] = "config", !["server"] = "config"]
    /\ ret' = [ret EXCEPT !["main"] = "read", !["server"] = "port"]
    /\ UNCHANGED <<self, cfg, configs, script_eng, engines, received, executed,
                   exit>>

\* init_load_config.  Its result is not looked at, so a missing option goes on
\* to ReadConfig.  Only a filesystem_error is caught in main.
LoadConfig(props) ==
    /\ pc["main"] = "load"
    /\ \/ /\ props \in Files
          /\ Call("main", "config", props)
          /\ UNCHANGED exit
       \/ /\ props = "no_props"
          /\ Call("main", "config", "read")
          /\ UNCHANGED exit
       \/ /\ props \in {"not_json", "bad_option"}
          /\ exit' = "exception"
          /\ UNCHANGED <<pc, ret>>
       \/ /\ props = "fs_error"
          /\ exit' = "caught"
          /\ UNCHANGED <<pc, ret>>
    /\ UNCHANGED <<self, cfg, configs, script_eng, engines, received, executed>>

\* GameConfig::load_config: the ptree is replaced by that of the file.
StoreConfig ==
    /\ pc["main"] \in Files
    /\ configs' = [configs EXCEPT ![cfg] = pc["main"]]
    /\ Call("main", "config", "read")
    /\ UNCHANGED <<self, cfg, script_eng, engines, received, executed, exit>>

\* Mutant: a missing key reads as an empty value.
ReadConfigLenient ==
    /\ pc["main"] = "read"
    /\ Goto("main", "spawn")
    /\ UNCHANGED <<ret, self, cfg, configs, script_eng, engines, received,
                   executed, exit>>

\* main prints name, object.currency and pi; a missing key throws.
ReadConfig ==
    /\ pc["main"] = "read"
    /\ \/ /\ configs[cfg] \in {"good", "no_port"}
          /\ Goto("main", "spawn")
          /\ UNCHANGED exit
       \/ /\ configs[cfg] \notin {"good", "no_port"}
          /\ exit' = "exception"
          /\ UNCHANGED pc
    /\ UNCHANGED <<ret, self, cfg, configs, script_eng, engines, received,
                   executed>>

\* Mutant: send_data is registered before the engine is initialised.
SpawnServerRegisterFirst ==
    /\ pc["main"] = "spawn"
    /\ pc' = [pc EXCEPT !["main"] = "engine", !["server"] = "config"]
    /\ ret' = [ret EXCEPT !["main"] = "register", !["server"] = "port"]
    /\ UNCHANGED <<self, cfg, configs, script_eng, engines, received, executed,
                   exit>>

\* std::thread{&init_server}.detach(), and on to the engine.
SpawnServer ==
    /\ pc["main"] = "spawn"
    /\ pc' = [pc EXCEPT !["main"] = "engine", !["server"] = "config"]
    /\ ret' = [ret EXCEPT !["main"] = "init", !["server"] = "port"]
    /\ UNCHANGED <<self, cfg, configs, script_eng, engines, received, executed,
                   exit>>

\* Mutant: Init empties the queue.
InitEngineClearing ==
    /\ pc["main"] = "init"
    /\ engines' = [engines EXCEPT ![self["main"]].state = "ready",
                                  ![self["main"]].queue = <<>>]
    /\ Call("main", "engine", "register")
    /\ UNCHANGED <<self, cfg, configs, script_eng, received, executed, exit>>

InitEngine ==
    /\ pc["main"] = "init"
    /\ engines' = [engines EXCEPT ![self["main"]].state = "ready"]
    /\ Call("main", "engine", "register")
    /\ UNCHANGED <<self, cfg, configs, script_eng, received, executed, exit>>

\* init_gafq_func.  Registering in a state that was never made follows a
\* pointer without a value.
RegisterSendData ==
    /\ pc["main"] = "register"
    /\ \/ /\ engines[self["main"]].state = "ready"
          /\ engines' = [engines EXCEPT ![self["main"]].send_data = TRUE]
          /\ Goto("main", "sleep")
          /\ UNCHANGED exit
       \/ /\ engines[self["main"]].state = "garbage"
          /\ exit' = "crash"
          /\ UNCHANGED <<pc, engines>>
    /\ UNCHANGED <<ret, self, cfg, configs, script_eng, received, executed>>

WakeUp ==
    /\ pc["main"] = "sleep"
    /\ Call("main", "engine", "loop")
    /\ UNCHANGED <<self, cfg, configs, script_eng, engines, received, executed,
                   exit>>

\* An empty queue touches no script state.
LoopExecute ==
    /\ pc["main"] = "loop"
    /\ LET e == engines[self["main"]] IN
       \/ /\ e.queue = <<>> \/ e.state = "ready"
          /\ executed' = executed \o e.queue
          /\ engines' = [engines EXCEPT ![self["main"]].queue = <<>>]
          /\ Goto("main", "sleep")
          /\ UNCHANGED exit
       \/ /\ e.queue # <<>> /\ e.state = "garbage"
          /\ exit' = "crash"
          /\ UNCHANGED <<pc, executed, engines>>
    /\ UNCHANGED <<ret, self, cfg, configs, script_eng, received>>

Main ==
    \/ GetInstance("main")
    \/ \E props \in Files \cup NoFiles : LoadConfig(props)
    \/ StoreConfig \/ ReadConfig
    \/ SpawnServer \/ InitEngine \/ RegisterSendData
    \/ WakeUp \/ LoopExecute

-----------------------------------------------------------------------------
(* The server thread.                                                      *)

\* get_config_int("port"); an exception that leaves a thread ends the process.
ReadPort ==
    /\ pc["server"] = "port"
    /\ \/ /\ configs[cfg] # "no_port"
          /\ Goto("server", "bind")
          /\ UNCHANGED exit
       \/ /\ configs[cfg] = "no_port"
          /\ exit' = "exception"
          /\ UNCHANGED pc
    /\ UNCHANGED <<ret, self, cfg, configs, script_eng, engines, received,
                   executed>>

\* bind() and listen(): an error ends the thread and nothing else.
BindAndListen(ok) ==
    /\ pc["server"] = "bind"
    /\ Goto("server", IF ok THEN "serve" ELSE "done")
    /\ UNCHANGED <<ret, self, cfg, configs, script_eng, engines, received,
                   executed, exit>>

\* A frame has arrived; its message is numbered by its arrival.
ReceiveMessage ==
    /\ pc["server"] = "serve"
    /\ received < MaxMsgs
    /\ received' = received + 1
    /\ Call("server", "engine", "exec")
    /\ UNCHANGED <<self, cfg, configs, script_eng, engines, executed, exit>>

\* Mutant: a message is counted twice.
ExecGafqTwice ==
    /\ pc["server"] = "exec"
    /\ engines' = [engines EXCEPT
           ![self["server"]].queue = Append(@, received),
           ![self["server"]].counted = @ + 2]
    /\ Goto("server", "serve")
    /\ UNCHANGED <<ret, self, cfg, configs, script_eng, received, executed,
                   exit>>

ExecGafq ==
    /\ pc["server"] = "exec"
    /\ engines' = [engines EXCEPT
           ![self["server"]].queue = Append(@, received),
           ![self["server"]].counted = @ + 1]
    /\ Goto("server", "serve")
    /\ UNCHANGED <<ret, self, cfg, configs, script_eng, received, executed,
                   exit>>

\* epoll_wait() returns -1: the loop is left and the thread ends.
WaitFails ==
    /\ pc["server"] = "serve"
    /\ Goto("server", "done")
    /\ UNCHANGED <<ret, self, cfg, configs, script_eng, engines, received,
                   executed, exit>>

Server ==
    \/ GetInstance("server")
    \/ ReadPort
    \/ \E ok \in BOOLEAN : BindAndListen(ok)
    \/ ReceiveMessage \/ ExecGafq \/ WaitFails

-----------------------------------------------------------------------------
Next == exit = "running" /\ (Main \/ Server)

Spec == Init /\ [][Next]_vars

\* Both threads run whenever they can; nobody is obliged to send a message.
FairSpec ==
    /\ Spec
    /\ WF_vars(exit = "running" /\ Main)
    /\ WF_vars(exit = "running" /\ pc["server"] # "serve" /\ Server)

-----------------------------------------------------------------------------
(* Properties.                                                             *)

\* The messages that have been handed to ExecGafq and are not yet executed.
Queued ==
    UNION {{engines[e].queue[k] : k \in 1 .. Len(engines[e].queue)} :
           e \in 1 .. Len(engines)}

Executed == {executed[k] : k \in 1 .. Len(executed)}

ConfigGetters == {"config", "new_config"}
EngineGetters == {"engine", "new_engine", "reset", "return"}
Engine == [state : {"garbage", "ready"}, send_data : BOOLEAN, reset : BOOLEAN,
           counted : 0 .. MaxMsgs, queue : Seq(Nat)]
MainLabels == Files \cup {"load", "read", "spawn", "init", "register", "sleep", "loop"}
ServerLabels == {"unborn", "port", "bind", "serve", "exec", "done"}

TypeOK ==
    /\ pc \in [Threads -> ConfigGetters \cup EngineGetters \cup MainLabels \cup ServerLabels]
    /\ pc["main"] \notin ServerLabels
    /\ pc["server"] \notin MainLabels
    /\ ret \in [Threads -> {"none"} \cup MainLabels \cup ServerLabels]
    /\ self \in [Threads -> 0 .. Len(engines)]
    /\ cfg \in 0 .. Len(configs)
    /\ configs \in Seq({"empty"} \cup Files)
    /\ script_eng \in 0 .. Len(engines)
    /\ engines \in Seq(Engine)
    /\ received \in 0 .. MaxMsgs
    /\ executed \in Seq(Nat)
    /\ exit \in {"running", "caught", "exception", "crash"}

\* The unsynchronised GameConfig::get_instance() makes one object: main has
\* called it before the server thread exists.
OneConfig == Len(configs) <= 1

\* init_load_config's false is ignored, and yet no server runs without its
\* configuration: the reads that follow end the process instead.
ServerHasConfig ==
    pc["server"] # "unborn" => configs[cfg] \in {"good", "no_port"}

\* While there is one engine, main never uses a script state that Init has not
\* made, whichever thread created the engine.
OneEngineIsReady == Len(engines) <= 1 => exit # "crash"

\* The race over script_eng is over once both threads have got an engine: the
\* pointer never changes again.
EngineSettles ==
    [][(\A t \in Threads : self[t] # 0) => script_eng' = script_eng]_vars

(***************************************************************************)
(* The invariant that the safety properties above follow from.             *)
(***************************************************************************)

\* get_instance() returns to the statement that called it.
ReturnsToCaller ==
    /\ pc["main"] \in ConfigGetters => ret["main"] \in Files \cup {"read"}
    /\ pc["main"] \in EngineGetters => ret["main"] \in {"init", "register", "loop"}
    /\ pc["server"] \in ConfigGetters => ret["server"] = "port"
    /\ pc["server"] \in EngineGetters => ret["server"] = "exec"

\* main has called GameConfig::get_instance() before there is a second thread,
\* and has read its keys by then.
ConfigInv ==
    /\ Len(configs) = cfg
    /\ cfg <= 1
    /\ pc["main"] \in {"load", "new_config"} => cfg = 0
    /\ pc["main"] \notin ConfigGetters \cup {"load"} => cfg = 1
    /\ pc["main"] \notin ConfigGetters \cup Files \cup {"load", "read"}
           => configs[1] \in {"good", "no_port"}
    /\ pc["main"] \in ConfigGetters \cup Files \cup {"load", "read", "spawn"}
           => pc["server"] = "unborn"
    /\ pc["server"] # "new_config"

\* A thread that is past get_instance() has an engine, and one that has an
\* engine does not create another.
EngineInv ==
    /\ \A t \in Threads :
           /\ self[t] # 0 => script_eng # 0
           /\ pc[t] \in {"reset", "return"} => script_eng # 0
           /\ pc[t] = "new_engine" => self[t] = 0
    /\ pc["main"] \in {"init", "register", "sleep", "loop"} => self["main"] # 0
    /\ pc["server"] = "exec" => self["server"] # 0

\* main has made the script state of some engine before it registers send_data
\* there or runs anything.
ReadyInv ==
    /\ \/ pc["main"] \in {"register", "sleep", "loop"}
       \/ pc["main"] \in EngineGetters /\ ret["main"] # "init"
       => \E e \in 1 .. Len(engines) : engines[e].state = "ready"
    /\ exit = "crash" => Len(engines) > 1

\* No message is counted twice, and the one the server thread holds not yet.
Held == IF pc["server"] \in EngineGetters \cup {"exec"} THEN 1 ELSE 0

CountInv ==
    /\ Held <= received
    /\ \A e \in 1 .. Len(engines) : engines[e].counted + Held <= received

\* Where the threads are in main() and in the two get_instance() settles which
\* singletons exist, how far they are initialised and what they have counted.
SingletonInv ==
    TypeOK /\ ReturnsToCaller /\ ConfigInv /\ EngineInv /\ ReadyInv /\ CountInv

Increasing(s) == \A j, k \in 1 .. Len(s) : j < k => s[j] < s[k]

\* What ExecGafq was given is executed or waits in an engine, and nothing is
\* executed twice or before an earlier message, even when there are two engines.
ExecutedInOrder ==
    /\ Executed \cup Queued = 1 .. received - Held
    /\ Increasing(executed)

\* The queue that main empties is the one that the server thread fills, unless
\* main is left with an engine that nobody has filled.
QueueInv ==
    /\ \A e \in 1 .. Len(engines) : Increasing(engines[e].queue)
    /\ self["main"] = 0 => executed = <<>>
    /\ self["server"] = 0 =>
           /\ executed = <<>>
           /\ \A e \in 1 .. Len(engines) : engines[e].queue = <<>>
    /\ self["main"] # 0 /\ self["server"] # 0 =>
           /\ script_eng \in {self["main"], self["server"]}
           /\ self["main"] # script_eng => engines[self["main"]].queue = <<>>
           /\ \A j \in 1 .. Len(executed), k \in 1 .. Len(engines[script_eng].queue) :
                  executed[j] < engines[script_eng].queue[k]

\* The singletons, and what becomes of the messages.
StartupInv == SingletonInv /\ ExecutedInOrder /\ QueueInv

\* What script_engine.cpp:68 says of ExecGafq: what is put in the queue is
\* taken out and executed in the next loop.
QueuedIsExecuted == \A n \in 1 .. MaxMsgs : n \in Queued ~> n \in Executed

\* That holds whenever only one engine is ever made.
OneEngineExecutes == [](Len(engines) <= 1) => QueuedIsExecuted
=============================================================================
