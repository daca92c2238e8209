--------------------------- MODULE LinuxHardenProofs ---------------------------
(***************************************************************************)
(* Theorems about LinuxHarden, for every host, any number of runs and any  *)
(* clock.  The script is a list of commands whose order is what the proofs *)
(* are about: Rank numbers the commands, and todo is always increasing.    *)
(***************************************************************************)
EXTENDS LinuxHarden, TLAPS

-----------------------------------------------------------------------------
(* Types. *)

LEMMA AfterType ==
    ASSUME NEW f \in Firewall,
           NEW command \in {"deny", "permit", "enable", "start", "add", "reload"}
    PROVE  After(command, f) \in Firewall
  BY DEF After, Firewall

LEMMA EditedType ==
    ASSUME NEW line \in Line
    PROVE  Edited(line) \in Line
  BY DEF Edited, Line

LEMMA NoFileType == NoFile \in Config /\ Torn \in Config
  BY DEF NoFile, Torn, Config, Line

LEMMA GoOnType ==
    ASSUME NEW rest, NEW failed \in BOOLEAN, GoOn(rest, failed), LinuxTypeOK
    PROVE  failures' \in BOOLEAN /\ exit' \in {"none", "pass", "fail", "usage", "invalid", "stopped"}
<1>1. failures' \in BOOLEAN
  BY DEF GoOn
<1>2. exit' \in {exit, "fail", "pass"}
  BY DEF GoOn
<1> QED
  BY <1>1, <1>2 DEF LinuxTypeOK

HostType == /\ config \in Config /\ dirs \subseteq Second /\ copies \in [Second -> Config]
            /\ installed \subseteq Tool /\ firewall \in [Tool -> Firewall]

LEMMA LinuxTypeInit == LinuxInit => LinuxTypeOK
<1> SUFFICES ASSUME LinuxInit PROVE LinuxTypeOK
  OBVIOUS
<1>1. 0 \in Second
  BY LinuxAssumption DEF Second
<1> QED
  BY <1>1, NoFileType, LinuxAssumption DEF LinuxInit, LinuxTypeOK

LEMMA ChangeType ==
    ASSUME LinuxTypeOK, ChangeFirewall
    PROVE  HostType'
<1>1. Head(todo) \in {"deny", "permit", "enable", "start", "add", "reload"}
  BY DEF ChangeFirewall
<1>2. ActiveTool \in Tool
  BY DEF ActiveTool, Tool
<1>3. After(Head(todo), firewall[ActiveTool]) \in Firewall
  BY <1>1, <1>2, AfterType DEF LinuxTypeOK
<1>4. firewall' \in [Tool -> Firewall]
  BY <1>2, <1>3 DEF ChangeFirewall, run, host, LinuxTypeOK
<1> QED
  BY <1>4 DEF ChangeFirewall, run, host, LinuxTypeOK, HostType

LEMMA EditType ==
    ASSUME LinuxTypeOK, EditConfig
    PROVE  HostType'
<1>1. PICK key \in {"root", "empty"} : Head(todo) = key
  BY DEF EditConfig
<1>2. Edited(config[key]) \in Line
  BY <1>1, EditedType DEF LinuxTypeOK, Config
<1>3. [config EXCEPT ![key] = Edited(config[key])] \in Config
  BY <1>2 DEF LinuxTypeOK, Config
<1>4. config' \in Config
  BY <1>1, <1>3 DEF EditConfig, run, host, LinuxTypeOK
<1> QED
  BY <1>4 DEF EditConfig, run, host, LinuxTypeOK, HostType

LEMMA StopType ==
    ASSUME LinuxTypeOK, Stop
    PROVE  HostType'
<1>1. CASE mode = "plan"
  BY <1>1 DEF Stop, run, host, LinuxTypeOK, HostType
<1>2. CASE mode # "plan"
  BY <1>2, NoFileType DEF Stop, run, Interrupted, LinuxTypeOK, HostType
<1> QED
  BY <1>1, <1>2

LEMMA CommandType ==
    ASSUME LinuxTypeOK, Command
    PROVE  HostType'
<1>1. ASSUME Check \/ VerifyConfig PROVE HostType'
  BY <1>1 DEF Check, VerifyConfig, host, HostType, LinuxTypeOK
<1>2. ASSUME Mkdir PROVE HostType'
  BY <1>2 DEF Mkdir, run, host, HostType, LinuxTypeOK
<1>3. ASSUME Packages PROVE HostType'
  BY <1>3 DEF Packages, Added, Tool, run, host, HostType, LinuxTypeOK
<1>4. ASSUME CopyConfig PROVE HostType'
  BY <1>4 DEF CopyConfig, run, host, HostType, LinuxTypeOK
<1>5. ASSUME TestConfig \/ InstallCopy PROVE HostType'
  BY <1>5 DEF TestConfig, InstallCopy, HostType, LinuxTypeOK
<1> QED
  BY <1>1, <1>2, <1>3, <1>4, <1>5, ChangeType, EditType DEF Command

LEMMA LinuxTypeStep == LinuxTypeOK /\ [LinuxNext]_linuxVars => LinuxTypeOK'
<1> SUFFICES ASSUME LinuxTypeOK, [LinuxNext]_linuxVars PROVE LinuxTypeOK'
  OBVIOUS
<1>0. 0 \in Second /\ OwnConfigs \subseteq Config
  BY LinuxAssumption DEF Second
<1>1. ASSUME NEW m \in {"audit", "plan", "apply"}, Start(m) PROVE LinuxTypeOK'
  BY <1>0, <1>1 DEF Start, host, ghosts, LinuxTypeOK
<1>2. ASSUME StartRollback PROVE LinuxTypeOK'
  BY <1>0, <1>2 DEF StartRollback, host, LinuxTypeOK
<1>3. ASSUME Command PROVE LinuxTypeOK'
  <2>1. HostType'
    BY <1>3, CommandType
  <2>2. UNCHANGED <<manager, now, mode, own>> /\ stamp' \in Second
    BY <1>3 DEF Command, Check, Mkdir, Packages, ChangeFirewall, CopyConfig, EditConfig, TestConfig,
                InstallCopy, VerifyConfig, ghosts, LinuxTypeOK
  <2>3. collided' \in BOOLEAN /\ cut' \in BOOLEAN
    BY <1>3 DEF Command, Check, Mkdir, Packages, ChangeFirewall, CopyConfig, EditConfig, TestConfig,
                InstallCopy, VerifyConfig, ghosts, LinuxTypeOK
  <2>4. failures' \in BOOLEAN /\ exit' \in {"none", "pass", "fail", "usage", "invalid", "stopped"}
    <3>1. ASSUME NEW rest, NEW failed \in BOOLEAN, GoOn(rest, failed)
          PROVE  failures' \in BOOLEAN /\ exit' \in {"none", "pass", "fail", "usage", "invalid", "stopped"}
      BY <3>1, GoOnType
    <3>2. failures \in BOOLEAN
      BY DEF LinuxTypeOK
    <3>3. ASSUME Check PROVE \E rest, failed : failed \in BOOLEAN /\ GoOn(rest, failed)
      BY <3>3 DEF Check
    <3>4. ASSUME Mkdir \/ Packages \/ ChangeFirewall \/ CopyConfig \/ EditConfig \/ InstallCopy
          PROVE  \E rest : GoOn(rest, failures)
      BY <3>4 DEF Mkdir, Packages, ChangeFirewall, CopyConfig, EditConfig, InstallCopy
    <3>5. ASSUME TestConfig PROVE failures' \in BOOLEAN /\ (GoOn(<<>>, failures) \/ exit' = "invalid")
      BY <3>2, <3>5 DEF TestConfig, GoOn
    <3>6. ASSUME VerifyConfig PROVE failures' = failures /\ exit' \in {"pass", "stopped"}
      BY <3>6 DEF VerifyConfig
    <3> QED
      BY <1>3, <3>1, <3>2, <3>3, <3>4, <3>5, <3>6 DEF Command
  <2> QED
    BY <2>1, <2>2, <2>3, <2>4 DEF LinuxTypeOK, HostType
<1>4. ASSUME Stop PROVE LinuxTypeOK'
  <2>1. HostType'
    BY <1>4, StopType
  <2> QED
    BY <1>4, <2>1 DEF Stop, LinuxTypeOK, HostType
<1>5. ASSUME OperatorEdits PROVE LinuxTypeOK'
  BY <1>0, <1>5 DEF OperatorEdits, LinuxTypeOK
<1>6. ASSUME Tick PROVE LinuxTypeOK'
  BY <1>6, LinuxAssumption DEF Tick, Second, host, ghosts, LinuxTypeOK
<1>7. ASSUME UNCHANGED linuxVars PROVE LinuxTypeOK'
  BY <1>7 DEF linuxVars, host, ghosts, LinuxTypeOK
<1> QED
  BY <1>1, <1>2, <1>3, <1>4, <1>5, <1>6, <1>7 DEF LinuxNext

\* The variables of the script and the host have their types, whatever runs and fails.
THEOREM LinuxTypeCorrect == LinuxSpec => []LinuxTypeOK
<1>1. LinuxInit => LinuxTypeOK
  BY LinuxTypeInit
<1>2. LinuxTypeOK /\ [LinuxNext]_linuxVars => LinuxTypeOK'
  BY LinuxTypeStep
<1> QED
  BY <1>1, <1>2, PTL DEF LinuxSpec
-----------------------------------------------------------------------------
(* The order of the commands. *)

Rank == [check |-> 1, mkdir |-> 2, packages |-> 3, deny |-> 4, start |-> 4, permit |-> 5, add |-> 5,
         enable |-> 6, reload |-> 6, copy |-> 7, root |-> 8, empty |-> 9, test |-> 10,
         install |-> 11, verify |-> 12]

FirewallWords == {"deny", "start", "permit", "add", "enable", "reload"}
SshWords == {"copy", "root", "empty", "test"}
Words == {"check", "mkdir", "packages", "install", "verify"} \cup FirewallWords \cup SshWords

Sorted(s) == \A i, j \in 1 .. Len(s) : i < j => Rank[s[i]] < Rank[s[j]]

\* A process takes the first of its commands; none of the others comes before it.
LEMMA HeadTail ==
    ASSUME NEW s \in Seq(Words), Sorted(s), s # <<>>
    PROVE  /\ Head(s) \in Words /\ Head(s) \in Range(s)
           /\ Tail(s) \in Seq(Words) /\ Sorted(Tail(s))
           /\ Range(Tail(s)) = Range(s) \ {Head(s)}
           /\ \A c \in Range(Tail(s)) : Rank[Head(s)] < Rank[c]
           /\ Tail(s) = <<>> <=> Range(Tail(s)) = {}
<1>1. Len(s) \in Nat \ {0} /\ DOMAIN s = 1 .. Len(s) /\ Head(s) = s[1]
  OBVIOUS
<1>2. /\ Tail(s) \in Seq(Words) /\ Len(Tail(s)) = Len(s) - 1
      /\ \A i \in 1 .. Len(s) - 1 : Tail(s)[i] = s[i + 1]
  OBVIOUS
<1>3. DOMAIN Tail(s) = 1 .. Len(s) - 1
  BY <1>2
<1>4. Sorted(Tail(s))
  BY <1>1, <1>2 DEF Sorted
<1>5. \A c \in Range(Tail(s)) : Rank[Head(s)] < Rank[c]
  <2> SUFFICES ASSUME NEW i \in 1 .. Len(s) - 1 PROVE Rank[s[1]] < Rank[s[i + 1]]
    BY <1>1, <1>2, <1>3 DEF Range
  <2> QED
    BY <1>1 DEF Sorted
<1>6. \A c \in Words : ~(Rank[c] < Rank[c])
  BY DEF Rank, Words, FirewallWords, SshWords
<1>7. Range(Tail(s)) \subseteq Words
  BY <1>2, <1>3 DEF Range
<1>8. Head(s) \notin Range(Tail(s))
  BY <1>5, <1>6, <1>7
<1>9. Range(s) = {Head(s)} \cup Range(Tail(s))
  <2>1. ASSUME NEW i \in 1 .. Len(s) PROVE s[i] \in {Head(s)} \cup Range(Tail(s))
    <3>1. CASE i = 1
      BY <1>1, <3>1
    <3>2. CASE i # 1
      <4>1. i - 1 \in 1 .. Len(s) - 1 /\ Tail(s)[i - 1] = s[i]
        BY <1>1, <1>2, <3>2
      <4> QED
        BY <1>3, <4>1 DEF Range
    <3> QED
      BY <3>1, <3>2
  <2>2. ASSUME NEW i \in 1 .. Len(s) - 1 PROVE Tail(s)[i] \in Range(s)
    BY <1>1, <1>2 DEF Range
  <2> QED
    BY <1>1, <1>3, <2>1, <2>2 DEF Range
<1>10. Tail(s) = <<>> <=> Range(Tail(s)) = {}
  <2>1. CASE Len(s) = 1
    BY <1>2, <1>3, <2>1 DEF Range
  <2>2. CASE Len(s) # 1
    <3>1. 1 \in 1 .. Len(s) - 1
      BY <1>1, <2>2
    <3>2. Tail(s)[1] \in Range(Tail(s))
      BY <1>3, <3>1 DEF Range
    <3>3. Len(<<>>) = 0 /\ Len(Tail(s)) # 0
      BY <1>1, <1>2, <2>2
    <3> QED
      BY <3>2, <3>3
  <2> QED
    BY <2>1, <2>2
<1>11. Head(s) \in Words /\ Head(s) \in Range(s)
  BY <1>1 DEF Range
<1>12. Range(Tail(s)) = Range(s) \ {Head(s)}
  BY <1>8, <1>9
<1> QED
  BY <1>2, <1>4, <1>5, <1>10, <1>11, <1>12

LEMMA Concatenated ==
    ASSUME NEW s \in Seq(Words), NEW t \in Seq(Words), Sorted(s), Sorted(t),
           \A c \in Range(s), d \in Range(t) : Rank[c] < Rank[d]
    PROVE  /\ s \o t \in Seq(Words) /\ Sorted(s \o t)
           /\ Range(s \o t) = Range(s) \cup Range(t)
<1>1. /\ Len(s) \in Nat /\ Len(t) \in Nat /\ Len(s \o t) = Len(s) + Len(t) /\ s \o t \in Seq(Words)
      /\ DOMAIN s = 1 .. Len(s) /\ DOMAIN t = 1 .. Len(t) /\ DOMAIN (s \o t) = 1 .. Len(s) + Len(t)
  OBVIOUS
<1>2. \A i \in 1 .. Len(s) + Len(t) : (s \o t)[i] = IF i <= Len(s) THEN s[i] ELSE t[i - Len(s)]
  OBVIOUS
<1>3. Range(s \o t) = Range(s) \cup Range(t)
  <2>1. \A i \in 1 .. Len(s) : i \in 1 .. Len(s) + Len(t) /\ (s \o t)[i] = s[i]
    BY <1>1, <1>2
  <2>2. \A i \in 1 .. Len(t) : i + Len(s) \in 1 .. Len(s) + Len(t) /\ (s \o t)[i + Len(s)] = t[i]
    BY <1>1, <1>2
  <2>3. \A i \in 1 .. Len(s) + Len(t) : (s \o t)[i] \in Range(s) \cup Range(t)
    BY <1>1, <1>2 DEF Range
  <2>4. Range(s) \cup Range(t) \subseteq Range(s \o t)
    BY <1>1, <2>1, <2>2 DEF Range
  <2>5. Range(s \o t) \subseteq Range(s) \cup Range(t)
    BY <1>1, <2>3 DEF Range
  <2> QED
    BY <2>4, <2>5
<1>4. Sorted(s \o t)
  <2> SUFFICES ASSUME NEW i \in 1 .. Len(s) + Len(t), NEW j \in 1 .. Len(s) + Len(t), i < j
               PROVE  Rank[(s \o t)[i]] < Rank[(s \o t)[j]]
    BY <1>1 DEF Sorted
  <2>1. CASE j <= Len(s)
    <3>1. (s \o t)[i] = s[i] /\ (s \o t)[j] = s[j] /\ i \in 1 .. Len(s) /\ j \in 1 .. Len(s)
      BY <1>1, <1>2, <2>1
    <3> QED
      BY <3>1 DEF Sorted
  <2>2. CASE i <= Len(s) /\ j > Len(s)
    <3>1. /\ (s \o t)[i] = s[i] /\ i \in 1 .. Len(s)
          /\ (s \o t)[j] = t[j - Len(s)] /\ j - Len(s) \in 1 .. Len(t)
      BY <1>1, <1>2, <2>2
    <3>2. s[i] \in Range(s) /\ t[j - Len(s)] \in Range(t)
      BY <1>1, <3>1 DEF Range
    <3> QED
      BY <3>1, <3>2
  <2>3. CASE i > Len(s)
    <3>1. /\ (s \o t)[i] = t[i - Len(s)] /\ i - Len(s) \in 1 .. Len(t)
          /\ (s \o t)[j] = t[j - Len(s)] /\ j - Len(s) \in 1 .. Len(t)
          /\ i - Len(s) < j - Len(s)
      BY <1>1, <1>2, <2>3
    <3> QED
      BY <3>1 DEF Sorted
  <2> QED
    BY <1>1, <2>1, <2>2, <2>3
<1> QED
  BY <1>1, <1>3, <1>4

\* The lists that are put together in the script.
LEMMA ListsSorted ==
    /\ <<>> \in Seq(Words) /\ Sorted(<<>>) /\ Range(<<>>) = {}
    /\ <<"check">> \in Seq(Words) /\ Sorted(<<"check">>) /\ Range(<<"check">>) = {"check"}
    /\ <<"mkdir", "packages">> \in Seq(Words) /\ Sorted(<<"mkdir", "packages">>)
    /\ Range(<<"mkdir", "packages">>) = {"mkdir", "packages"}
    /\ <<"install", "verify">> \in Seq(Words) /\ Sorted(<<"install", "verify">>)
    /\ Range(<<"install", "verify">>) = {"install", "verify"}
  BY DEF Words, FirewallWords, SshWords, Sorted, Rank, Range

LEMMA FirewallListSorted ==
    ASSUME NEW tools
    PROVE  /\ FirewallCommands(tools) \in Seq(Words) /\ Sorted(FirewallCommands(tools))
           /\ Range(FirewallCommands(tools)) =
                 CASE "ufw" \in tools       -> {"deny", "permit", "enable"}
                   [] tools = {"firewalld"} -> {"start", "add", "reload"}
                   [] OTHER                 -> {}
<1>1. CASE "ufw" \in tools
  <2>1. FirewallCommands(tools) = <<"deny", "permit", "enable">>
    BY <1>1 DEF FirewallCommands
  <2> QED
    BY <1>1, <2>1 DEF Words, FirewallWords, SshWords, Sorted, Rank, Range
<1>2. CASE tools = {"firewalld"}
  <2>1. FirewallCommands(tools) = <<"start", "add", "reload">> /\ "ufw" \notin tools
    BY <1>2 DEF FirewallCommands
  <2>2. /\ <<"start", "add", "reload">> \in Seq(Words) /\ Sorted(<<"start", "add", "reload">>)
        /\ Range(<<"start", "add", "reload">>) = {"start", "add", "reload"}
    BY DEF Words, FirewallWords, SshWords, Sorted, Rank, Range
  <2> QED
    BY <1>2, <2>1, <2>2
<1>3. CASE "ufw" \notin tools /\ tools # {"firewalld"}
  BY <1>3, ListsSorted DEF FirewallCommands
<1> QED
  BY <1>1, <1>2, <1>3

LEMMA SshListSorted ==
    /\ SshCommands \in Seq(Words) /\ Sorted(SshCommands)
    /\ Range(SshCommands) = IF config.kind = "none" THEN {} ELSE SshWords
<1>1. CASE config.kind = "none"
  BY <1>1, ListsSorted DEF SshCommands
<1>2. CASE config.kind # "none"
  <2>1. SshCommands = <<"copy", "root", "empty", "test">>
    BY <1>2 DEF SshCommands
  <2> QED
    BY <1>2, <2>1 DEF Words, FirewallWords, SshWords, Sorted, Rank, Range
<1> QED
  BY <1>1, <1>2
-----------------------------------------------------------------------------
(* The invariant. *)

Left == Range(todo)

\* What is left of a process: commands in their order, with those that others need
\* after them; those on sshd_config only if there is one.
TodoOK ==
    /\ todo \in Seq(Words) /\ Sorted(todo)
    /\ "check" \in Left => Left = {"check"}
    /\ {"mkdir", "packages"} \cap Left # {} =>
          "packages" \in Left /\ Left \subseteq {"mkdir", "packages"}
    /\ "deny" \in Left => "permit" \in Left
    /\ "start" \in Left => "add" \in Left /\ "enable" \notin Left
    /\ "add" \in Left => "reload" \in Left
    /\ SshWords \cap Left # {} => config.kind # "none"
    /\ mode = "audit" => Left \subseteq {"check"}
    /\ mode = "rollback" => Left \subseteq {"install", "verify"}
    /\ mode # "rollback" => {"install", "verify"} \cap Left = {}
    /\ Running => exit = "none"

\* A process takes its first command.
LEMMA Ordered ==
    ASSUME TodoOK, Running
    PROVE  /\ Head(todo) \in Left /\ Head(todo) \in Words /\ Left \subseteq Words
           /\ \A c \in Left : c = Head(todo) \/ Rank[Head(todo)] < Rank[c]
<1>1. todo \in Seq(Words) /\ Sorted(todo) /\ todo # <<>>
  BY DEF TodoOK, Running
<1>2. Range(todo) \subseteq Words
  BY <1>1 DEF Range
<1> QED
  BY <1>1, <1>2, HeadTail DEF Left

LEMMA Taken ==
    ASSUME TodoOK, Running, todo' = Tail(todo)
    PROVE  /\ todo' \in Seq(Words) /\ Sorted(todo')
           /\ Left' = Left \ {Head(todo)}
           /\ todo' = <<>> <=> Left' = {}
<1>1. todo \in Seq(Words) /\ Sorted(todo) /\ todo # <<>>
  BY DEF TodoOK, Running
<1>2. Left' = Range(Tail(todo))
  BY DEF Left
<1> QED
  BY <1>1, <1>2, HeadTail DEF Left

\* Taking the first command keeps to the order.
LEMMA TakenOK ==
    ASSUME TodoOK, Running, todo' = Tail(todo), mode' = mode,
           SshWords \cap Left # {} => config'.kind = config.kind,
           Tail(todo) # <<>> => exit' = exit
    PROVE  TodoOK'
<1>1. /\ todo' \in Seq(Words) /\ Sorted(todo') /\ Left' = Left \ {Head(todo)}
      /\ Head(todo) \in Left
      /\ \A c \in Left : c = Head(todo) \/ Rank[Head(todo)] < Rank[c]
  BY Taken, Ordered
<1>2. Sorted(todo)'
  BY <1>1 DEF Sorted
<1>3. /\ "check" \in Left' => Left' = {"check"}
      /\ {"mkdir", "packages"} \cap Left' # {} =>
            "packages" \in Left' /\ Left' \subseteq {"mkdir", "packages"}
  BY <1>1 DEF TodoOK, Rank
<1>4. /\ "deny" \in Left' => "permit" \in Left'
      /\ "start" \in Left' => "add" \in Left' /\ "enable" \notin Left'
      /\ "add" \in Left' => "reload" \in Left'
  BY <1>1 DEF TodoOK, Rank
<1>5. /\ SshWords \cap Left' # {} => config'.kind # "none"
      /\ mode' = "audit" => Left' \subseteq {"check"}
      /\ mode' = "rollback" => Left' \subseteq {"install", "verify"}
      /\ mode' # "rollback" => {"install", "verify"} \cap Left' = {}
  BY <1>1 DEF TodoOK
<1>6. Running' => exit' = "none"
  BY DEF TodoOK, Running
<1> QED
  BY <1>1, <1>2, <1>3, <1>4, <1>5, <1>6 DEF TodoOK

LEMMA NothingLeft ==
    ASSUME todo' = <<>>
    PROVE  TodoOK' /\ Left' = {} /\ ~Running'
<1>1. Left' = {} /\ ~Running'
  BY ListsSorted DEF Left, Running
<1>2. todo' \in Seq(Words) /\ Sorted(todo)'
  BY ListsSorted DEF Sorted
<1> QED
  BY <1>1, <1>2 DEF TodoOK

LEMMA TodoInit == LinuxInit => TodoOK
<1> SUFFICES ASSUME LinuxInit PROVE TodoOK
  OBVIOUS
<1>1. todo = <<>> /\ Left = {}
  BY ListsSorted DEF LinuxInit, Left
<1> QED
  BY <1>1, ListsSorted DEF TodoOK, Running

LEMMA PackagesList ==
    ASSUME Packages
    PROVE  LET s == FirewallCommands(installed') \o SshCommands IN
           /\ todo' = s /\ s \in Seq(Words) /\ Sorted(s)
           /\ Left' = Range(FirewallCommands(installed')) \cup Range(SshCommands)
<1> DEFINE s == FirewallCommands(installed') \o SshCommands
<1>1. todo' = s
  BY DEF Packages, GoOn
<1>2. \A c \in Range(FirewallCommands(installed')), d \in Range(SshCommands) : Rank[c] < Rank[d]
  BY FirewallListSorted, SshListSorted DEF Rank, SshWords
<1>3. /\ s \in Seq(Words) /\ Sorted(s)
      /\ Range(s) = Range(FirewallCommands(installed')) \cup Range(SshCommands)
  BY <1>2, FirewallListSorted, SshListSorted, Concatenated
<1> QED
  BY <1>1, <1>3 DEF Left
LEMMA TodoStep == LinuxTypeOK /\ TodoOK /\ [LinuxNext]_linuxVars => TodoOK'
<1> SUFFICES ASSUME LinuxTypeOK, TodoOK, [LinuxNext]_linuxVars PROVE TodoOK'
  OBVIOUS
<1>1. ASSUME NEW m \in {"audit", "plan", "apply"}, Start(m) PROVE TodoOK'
  <2>1. CASE todo' = <<>>
    BY <2>1, NothingLeft
  <2>2. CASE todo' # <<>>
    <3>1. todo' = <<"check">> /\ exit' = "none" /\ mode' = m
      BY <1>1, <2>2 DEF Start
    <3>2. Left' = {"check"} /\ todo' \in Seq(Words) /\ Sorted(todo)'
      BY <3>1, ListsSorted DEF Left, Sorted
    <3> QED
      BY <3>1, <3>2 DEF TodoOK, SshWords
  <2> QED
    BY <2>1, <2>2
<1>2. ASSUME StartRollback PROVE TodoOK'
  <2>1. CASE todo' = <<>>
    BY <2>1, NothingLeft
  <2>2. CASE todo' # <<>>
    <3>1. todo' = <<"install", "verify">> /\ exit' = "none" /\ mode' = "rollback"
      BY <1>2, <2>2 DEF StartRollback
    <3>2. Left' = {"install", "verify"} /\ todo' \in Seq(Words) /\ Sorted(todo)'
      BY <3>1, ListsSorted DEF Left, Sorted
    <3> QED
      BY <3>1, <3>2 DEF TodoOK, SshWords
  <2> QED
    BY <2>1, <2>2
<1>3. ASSUME Check PROVE TodoOK'
  <2>1. Running /\ Head(todo) = "check" /\ mode' = mode
    BY <1>3 DEF Check
  <2>2. mode # "rollback"
    BY <2>1, Ordered DEF TodoOK
  <2>3. CASE mode = "audit"
    BY <1>3, <2>3, NothingLeft DEF Check, GoOn
  <2>4. CASE mode # "audit"
    <3>1. todo' = <<"mkdir", "packages">> /\ exit' = exit
      BY <1>3, <2>4 DEF Check, GoOn
    <3>2. Left' = {"mkdir", "packages"} /\ todo' \in Seq(Words) /\ Sorted(todo)'
      BY <3>1, ListsSorted DEF Left, Sorted
    <3>3. exit = "none"
      BY <2>1 DEF TodoOK
    <3> QED
      BY <2>1, <2>2, <2>4, <3>1, <3>2, <3>3 DEF TodoOK, SshWords
  <2> QED
    BY <2>3, <2>4
<1>4. ASSUME Mkdir PROVE TodoOK'
  <2>1. config' = config
    BY <1>4 DEF Mkdir, run, host
  <2> QED
    BY <1>4, <2>1, TakenOK DEF Mkdir, GoOn
<1>5. ASSUME Packages PROVE TodoOK'
  <2>1. Running /\ Head(todo) = "packages" /\ mode' = mode /\ (todo' # <<>> => exit' = exit)
    BY <1>5 DEF Packages, GoOn
  <2>2. config' = config
    BY <1>5 DEF Packages, run, host
  <2>3. /\ todo' \in Seq(Words) /\ Sorted(todo)'
        /\ Left' = Range(FirewallCommands(installed')) \cup Range(SshCommands)
    BY <1>5, PackagesList DEF Sorted
  <2>4. \/ Range(FirewallCommands(installed')) = {"deny", "permit", "enable"}
        \/ Range(FirewallCommands(installed')) = {"start", "add", "reload"}
        \/ Range(FirewallCommands(installed')) = {}
    BY FirewallListSorted
  <2>5. Range(SshCommands) = IF config.kind = "none" THEN {} ELSE SshWords
    BY SshListSorted
  <2>6. mode # "audit" /\ mode # "rollback" /\ exit = "none"
    BY <2>1, Ordered DEF TodoOK
  <2> QED
    BY <2>1, <2>2, <2>3, <2>4, <2>5, <2>6 DEF TodoOK, SshWords, Running
<1>6. ASSUME ChangeFirewall PROVE TodoOK'
  <2>1. config' = config
    BY <1>6 DEF ChangeFirewall, run, host
  <2> QED
    BY <1>6, <2>1, TakenOK DEF ChangeFirewall, GoOn
<1>7. ASSUME CopyConfig PROVE TodoOK'
  <2>1. config' = config
    BY <1>7 DEF CopyConfig, run, host
  <2> QED
    BY <1>7, <2>1, TakenOK DEF CopyConfig, GoOn
<1>8. ASSUME EditConfig PROVE TodoOK'
  <2>1. config'.kind = config.kind
    BY <1>8 DEF EditConfig, run, host, LinuxTypeOK, Config
  <2> QED
    BY <1>8, <2>1, TakenOK DEF EditConfig, GoOn
<1>9. ASSUME TestConfig \/ VerifyConfig \/ Stop PROVE TodoOK'
  BY <1>9, NothingLeft DEF TestConfig, VerifyConfig, Stop, GoOn
<1>10. ASSUME InstallCopy PROVE TodoOK'
  <2>1. SshWords \cap Left = {}
    BY <1>10, Ordered DEF InstallCopy, TodoOK, SshWords
  <2> QED
    BY <1>10, <2>1, TakenOK DEF InstallCopy, GoOn
<1>11. ASSUME OperatorEdits PROVE TodoOK'
  BY <1>11, NothingLeft DEF OperatorEdits, Running
<1>12. ASSUME Tick \/ UNCHANGED linuxVars PROVE TodoOK'
  <2>1. UNCHANGED <<todo, config, mode, exit>>
    BY <1>12 DEF Tick, linuxVars, host
  <2> QED
    BY <2>1 DEF TodoOK, Left, Running, Sorted
<1> QED
  BY <1>1, <1>2, <1>3, <1>4, <1>5, <1>6, <1>7, <1>8, <1>9, <1>10, <1>11, <1>12
     DEF LinuxNext, Command

-----------------------------------------------------------------------------
(* The operator's file. *)

Safe == \E s \in dirs : copies[s] = own

\* A new directory is empty.  An apply copies into it before it edits, and a rollback
\* installs what its operator chose.
KeptOK ==
    /\ \A s \in Second \ dirs : copies[s].kind = "none"
    /\ own.kind = "none" => config = own
    /\ collided \/ config = own \/ Safe
    /\ mode = "apply" /\ {"packages", "copy"} \cap Left # {} /\ "mkdir" \notin Left =>
          stamp \in dirs /\ (collided \/ copies[stamp].kind = "none")
    /\ mode = "apply" /\ {"root", "empty", "test"} \cap Left # {} /\ "copy" \notin Left =>
          collided \/ Safe
    /\ mode = "rollback" /\ "install" \in Left =>
          stamp \in dirs /\ (copies[stamp].kind # "none" => own = copies[stamp])

KeptInv == LinuxTypeOK /\ TodoOK /\ KeptOK

LEMMA KeptInit == LinuxInit => KeptOK
<1> SUFFICES ASSUME LinuxInit PROVE KeptOK
  OBVIOUS
<1>1. Left = {}
  BY ListsSorted DEF LinuxInit, Left
<1> QED
  BY <1>1 DEF LinuxInit, KeptOK, NoFile

\* The host and its history stay; what is left is some of what was left.
LEMMA KeptSame ==
    ASSUME KeptOK, UNCHANGED <<config, dirs, copies, own, collided>>,
           \/ Left' \cap ({"packages", "root", "empty", "test", "install"} \cup SshWords) = {}
           \/ /\ UNCHANGED <<mode, stamp>>
              /\ Left' \subseteq Left /\ ("copy" \in Left => "copy" \in Left')
              /\ "mkdir" \in Left => "mkdir" \in Left'
    PROVE  KeptOK'
<1>1. Safe' <=> Safe
  BY DEF Safe
<1> QED
  BY <1>1 DEF KeptOK, SshWords

LEMMA KeptMkdir ==
    ASSUME KeptInv, Mkdir
    PROVE  KeptOK'
<1>1. Running /\ Head(todo) = "mkdir" /\ todo' = Tail(todo) /\ mode' = mode /\ stamp' = now
      /\ own' = own
  BY DEF Mkdir, GoOn
<1>2. Left = {"mkdir", "packages"} /\ Left' = {"packages"}
  <2>1. TodoOK /\ "mkdir" \in Left /\ Left' = Left \ {"mkdir"}
    BY <1>1, Ordered, Taken DEF KeptInv
  <2>2. "packages" \in Left /\ Left \subseteq {"mkdir", "packages"}
    BY <2>1 DEF TodoOK
  <2> QED
    BY <2>1, <2>2
<1>3. CASE mode = "plan"
  <2>1. UNCHANGED <<config, dirs, copies>>
    BY <1>3 DEF Mkdir, run, host
  <2>2. Safe' <=> Safe
    BY <1>1, <2>1 DEF Safe
  <2>3. mode' # "apply" /\ mode' # "rollback"
    BY <1>1, <1>3
  <2>4. collided' = collided
    BY <1>3 DEF Mkdir, KeptInv, LinuxTypeOK
  <2> QED
    BY <1>1, <2>1, <2>2, <2>3, <2>4 DEF KeptInv, KeptOK
<1>4. CASE mode # "plan"
  <2>1. mode = "apply"
    BY <1>1, <1>2, <1>4 DEF KeptInv, TodoOK, LinuxTypeOK
  <2>2. /\ dirs' = dirs \cup {now} /\ UNCHANGED <<config, copies>>
        /\ collided' = (collided \/ now \in dirs)
    BY <1>4, <2>1 DEF Mkdir, run
  <2>3. now \in dirs' /\ (collided' \/ copies'[now].kind = "none")
    BY <2>2 DEF KeptInv, KeptOK, LinuxTypeOK
  <2>4. Safe => Safe'
    BY <1>1, <2>2 DEF Safe
  <2> QED
    BY <1>1, <1>2, <2>1, <2>2, <2>3, <2>4 DEF KeptInv, KeptOK
<1> QED
  BY <1>3, <1>4

LEMMA KeptPackages ==
    ASSUME KeptInv, Packages
    PROVE  KeptOK'
<1>1. Running /\ Head(todo) = "packages" /\ UNCHANGED <<mode, stamp, own, collided>>
  BY DEF Packages, ghosts
<1>2. UNCHANGED <<config, dirs, copies>>
  BY DEF Packages, run, host
<1>3. "packages" \in Left /\ "mkdir" \notin Left
  BY <1>1, Ordered DEF KeptInv, Rank
<1>4. Left' = Range(FirewallCommands(installed')) \cup Range(SshCommands)
  BY PackagesList
<1>5. Range(FirewallCommands(installed')) \subseteq FirewallWords
  BY FirewallListSorted DEF FirewallWords
<1>6. Range(SshCommands) \in {{}, SshWords}
  BY SshListSorted
<1>7. Safe' <=> Safe
  BY <1>1, <1>2 DEF Safe
<1>8. "install" \notin Left' /\ ({"root", "empty", "test"} \cap Left' # {} => "copy" \in Left')
  BY <1>4, <1>5, <1>6 DEF FirewallWords, SshWords
<1> QED
  BY <1>1, <1>2, <1>3, <1>7, <1>8 DEF KeptInv, KeptOK

\* Commands on the packages and the configuration run in apply and plan mode.
LEMMA ModeOfSsh ==
    ASSUME LinuxTypeOK, TodoOK, Running, Head(todo) \in SshWords, mode # "plan"
    PROVE  mode = "apply" /\ config.kind # "none"
  BY Ordered DEF TodoOK, LinuxTypeOK, SshWords

LEMMA KeptCopy ==
    ASSUME KeptInv, CopyConfig
    PROVE  KeptOK'
<1>1. Running /\ Head(todo) = "copy" /\ todo' = Tail(todo) /\ UNCHANGED <<mode, stamp, own, collided>>
  BY DEF CopyConfig, GoOn, ghosts
<1>2. Left' = Left \ {"copy"} /\ "copy" \in Left
  BY <1>1, Taken, Ordered DEF KeptInv
<1>3. {"packages", "mkdir"} \cap Left = {}
  BY <1>1, Ordered DEF KeptInv, Rank
<1>4. CASE mode = "plan"
  <2>1. UNCHANGED <<config, dirs, copies>>
    BY <1>4 DEF CopyConfig, run, host
  <2>2. Safe' <=> Safe
    BY <1>1, <2>1 DEF Safe
  <2> QED
    BY <1>1, <1>4, <2>1, <2>2 DEF KeptInv, KeptOK
<1>5. CASE mode # "plan"
  <2>1. mode = "apply"
    BY <1>1, <1>5, ModeOfSsh DEF KeptInv, SshWords
  <2>2. stamp \in dirs /\ stamp \in Second /\ (collided \/ copies[stamp].kind = "none")
    BY <1>2, <1>3, <2>1 DEF KeptInv, KeptOK, LinuxTypeOK
  <2>3. UNCHANGED <<config, dirs>> /\ copies' = [copies EXCEPT ![stamp] = config]
    BY <1>5 DEF CopyConfig, run
  <2>4. /\ copies'[stamp] = config
        /\ \A s \in Second : s # stamp => copies'[s] = copies[s]
    BY <2>2, <2>3 DEF KeptInv, LinuxTypeOK
  <2>5. collided \/ Safe'
    <3>1. CASE config = own
      BY <1>1, <2>2, <2>3, <2>4, <3>1 DEF Safe
    <3>2. CASE ~collided /\ config # own
      <4>1. PICK s \in dirs : copies[s] = own
        BY <3>2 DEF KeptInv, KeptOK, Safe
      <4>2. s # stamp /\ s \in Second
        BY <2>2, <3>2, <4>1 DEF KeptInv, KeptOK, LinuxTypeOK
      <4> QED
        BY <1>1, <2>3, <2>4, <4>1, <4>2 DEF Safe
    <3> QED
      BY <3>1, <3>2
  <2>6. \A s \in Second \ dirs : copies'[s].kind = "none"
    BY <2>2, <2>4 DEF KeptInv, KeptOK
  <2> QED
    BY <1>1, <1>2, <1>3, <2>1, <2>3, <2>5, <2>6 DEF KeptInv, KeptOK
<1> QED
  BY <1>4, <1>5

\* Once sshd_config may be touched, the operator's file is in a backup.
LEMMA SafeByThen ==
    ASSUME KeptInv, Running, Head(todo) \in {"root", "empty", "test"}, mode # "plan"
    PROVE  /\ (mode = "apply" /\ own.kind # "none") \/ config = own
           /\ config.kind # "none" /\ (collided \/ Safe)
<1>1. mode = "apply" /\ config.kind # "none"
  BY ModeOfSsh DEF KeptInv, SshWords
<1>2. {"root", "empty", "test"} \cap Left # {} /\ "copy" \notin Left
  BY Ordered DEF KeptInv, Rank
<1> QED
  BY <1>1, <1>2 DEF KeptInv, KeptOK
LEMMA KeptStop ==
    ASSUME KeptInv, Stop
    PROVE  KeptOK'
<1>1. Running /\ todo' = <<>> /\ UNCHANGED <<mode, stamp, own, collided>> /\ run(Interrupted)
  BY DEF Stop
<1>2. Left' = {}
  BY <1>1, NothingLeft
<1>3. CASE mode = "plan" \/ UNCHANGED <<config, copies>>
  <2>1. UNCHANGED <<config, dirs, copies>>
    BY <1>1, <1>3 DEF run, host, Interrupted
  <2> QED
    BY <1>1, <1>2, <2>1, KeptSame DEF KeptInv
<1>4. CASE mode # "plan" /\ Head(todo) = "copy" /\ copies' = [copies EXCEPT ![stamp] = Torn]
           /\ config' = config
  <2>1. mode = "apply"
    BY <1>1, <1>4, ModeOfSsh DEF KeptInv, SshWords
  <2>2. "copy" \in Left /\ "mkdir" \notin Left
    BY <1>1, <1>4, Ordered DEF KeptInv, Rank
  <2>3. stamp \in dirs /\ stamp \in Second /\ (collided \/ copies[stamp].kind = "none")
    BY <2>1, <2>2 DEF KeptInv, KeptOK, LinuxTypeOK
  <2>4. dirs' = dirs
    BY <1>1, <1>4 DEF run, Interrupted
  <2>5. \A s \in Second : s # stamp => copies'[s] = copies[s]
    BY <1>4 DEF KeptInv, LinuxTypeOK
  <2>6. collided \/ config = own \/ Safe'
    <3> SUFFICES ASSUME ~collided, config # own PROVE Safe'
      OBVIOUS
    <3>1. PICK s \in dirs : copies[s] = own
      BY DEF KeptInv, KeptOK, Safe
    <3>2. s # stamp /\ s \in Second
      BY <2>3, <3>1 DEF KeptInv, KeptOK, LinuxTypeOK
    <3> QED
      BY <1>1, <2>4, <2>5, <3>1, <3>2 DEF Safe
  <2>7. \A s \in Second \ dirs : copies'[s].kind = "none"
    BY <2>3, <2>5 DEF KeptInv, KeptOK
  <2> QED
    BY <1>1, <1>2, <1>4, <2>4, <2>6, <2>7 DEF KeptInv, KeptOK
<1>5. CASE mode # "plan" /\ config' = Torn /\ copies' = copies
           /\ Head(todo) = "install" /\ copies[stamp].kind # "none"
  <2>1. mode = "rollback" /\ "install" \in Left
    BY <1>1, <1>5, Ordered DEF KeptInv, TodoOK
  <2>2. stamp \in dirs /\ own = copies[stamp] /\ dirs' = dirs
    BY <1>1, <1>5, <2>1 DEF KeptInv, KeptOK, run, Interrupted
  <2>3. Safe'
    BY <1>1, <1>5, <2>2 DEF Safe
  <2> QED
    BY <1>1, <1>2, <1>5, <2>2, <2>3 DEF KeptInv, KeptOK
<1>6. CASE mode # "plan" /\ config' = Torn /\ copies' = copies /\ Head(todo) = "test"
  <2>1. dirs' = dirs
    BY <1>1, <1>6 DEF run, Interrupted
  <2>2. own.kind # "none" /\ (collided \/ Safe)
    <3>1. config.kind # "none" /\ (collided \/ Safe)
      BY <1>1, <1>6, SafeByThen
    <3> QED
      BY <3>1 DEF KeptInv, KeptOK
  <2>3. Safe' <=> Safe
    BY <1>1, <1>6, <2>1 DEF Safe
  <2> QED
    BY <1>1, <1>2, <1>6, <2>1, <2>2, <2>3 DEF KeptInv, KeptOK
<1> QED
  BY <1>1, <1>3, <1>4, <1>5, <1>6 DEF run, Interrupted

LEMMA KeptEdit ==
    ASSUME KeptInv, EditConfig
    PROVE  KeptOK'
<1>1. /\ Running /\ Head(todo) \in {"root", "empty"} /\ todo' = Tail(todo)
      /\ UNCHANGED <<mode, stamp, own, collided>>
  BY DEF EditConfig, GoOn, ghosts
<1>2. Left' = Left \ {Head(todo)}
  BY <1>1, Taken DEF KeptInv
<1>3. {"packages", "copy", "mkdir", "install"} \cap Left = {}
  BY <1>1, Ordered DEF KeptInv, Rank, TodoOK
<1>4. CASE mode = "plan"
  <2>1. UNCHANGED <<config, dirs, copies>>
    BY <1>4 DEF EditConfig, run, host
  <2>2. Safe' <=> Safe
    BY <1>1, <2>1 DEF Safe
  <2> QED
    BY <1>1, <1>4, <2>1, <2>2 DEF KeptInv, KeptOK
<1>5. CASE mode # "plan"
  <2>1. config.kind # "none" /\ (collided \/ Safe)
    BY <1>1, <1>5, SafeByThen
  <2>2. own.kind # "none"
    BY <2>1 DEF KeptInv, KeptOK
  <2>3. UNCHANGED <<dirs, copies>>
    BY <1>5 DEF EditConfig, run
  <2>4. Safe' <=> Safe
    BY <1>1, <2>3 DEF Safe
  <2> QED
    BY <1>1, <1>2, <1>3, <2>1, <2>2, <2>3, <2>4 DEF KeptInv, KeptOK
<1> QED
  BY <1>4, <1>5

LEMMA KeptTest ==
    ASSUME KeptInv, TestConfig
    PROVE  KeptOK'
<1>1. /\ Running /\ Head(todo) = "test" /\ todo' = <<>>
      /\ UNCHANGED <<dirs, copies, mode, stamp, own, collided>>
  BY DEF TestConfig, GoOn, ghosts
<1>2. Left' = {}
  BY <1>1, NothingLeft
<1>3. CASE config' = config
  BY <1>1, <1>2, <1>3, KeptSame DEF KeptInv
<1>4. CASE mode = "apply"
  <2>1. config.kind # "none" /\ (collided \/ Safe)
    BY <1>1, <1>4, SafeByThen
  <2>2. own.kind # "none"
    BY <2>1 DEF KeptInv, KeptOK
  <2>3. Safe' <=> Safe
    BY <1>1 DEF Safe
  <2> QED
    BY <1>1, <1>2, <2>1, <2>2, <2>3 DEF KeptInv, KeptOK
<1> QED
  BY <1>3, <1>4 DEF TestConfig

LEMMA KeptInstall ==
    ASSUME KeptInv, InstallCopy
    PROVE  KeptOK'
<1>1. /\ Running /\ Head(todo) = "install" /\ todo' = Tail(todo)
      /\ UNCHANGED <<dirs, copies, mode, stamp, own, collided>>
      /\ config' = IF copies[stamp].kind = "none" THEN config ELSE copies[stamp]
  BY DEF InstallCopy, GoOn, ghosts
<1>2. mode = "rollback" /\ "install" \in Left /\ Left' = Left \ {"install"}
  BY <1>1, Ordered, Taken DEF KeptInv, TodoOK
<1>3. stamp \in dirs /\ (copies[stamp].kind # "none" => own = copies[stamp])
  BY <1>2 DEF KeptInv, KeptOK
<1>4. Safe' <=> Safe
  BY <1>1 DEF Safe
<1> QED
  BY <1>1, <1>2, <1>3, <1>4 DEF KeptInv, KeptOK

LEMMA KeptRollback ==
    ASSUME KeptInv, StartRollback
    PROVE  KeptOK'
<1>1. UNCHANGED <<config, dirs, copies, collided>> /\ mode' = "rollback"
  BY DEF StartRollback, host
<1>2. CASE own' = own /\ todo' = <<>>
  <2>1. Left' = {}
    BY <1>2, NothingLeft
  <2> QED
    BY <1>1, <1>2, <2>1, KeptSame DEF KeptInv
<1>3. ASSUME NEW s \in dirs, stamp' = s, own' = IF copies[s].kind = "none" THEN own ELSE copies[s]
      PROVE  KeptOK'
  <2>1. Safe => Safe'
    BY <1>1, <1>3 DEF Safe
  <2>2. copies[s].kind # "none" => Safe'
    BY <1>1, <1>3 DEF Safe
  <2> QED
    BY <1>1, <1>3, <2>1, <2>2 DEF KeptInv, KeptOK
<1> QED
  BY <1>2, <1>3 DEF StartRollback

LEMMA KeptStep == KeptInv /\ [LinuxNext]_linuxVars => KeptOK'
<1> SUFFICES ASSUME KeptInv, [LinuxNext]_linuxVars PROVE KeptOK'
  OBVIOUS
<1>0. KeptOK /\ TodoOK
  BY DEF KeptInv
<1>1. ASSUME NEW m \in {"audit", "plan", "apply"}, Start(m) PROVE KeptOK'
  <2>1. Left' \subseteq {"check"}
    BY <1>1, ListsSorted DEF Start, Left
  <2> QED
    BY <1>0, <1>1, <2>1, KeptSame DEF Start, host, ghosts, SshWords
<1>2. ASSUME Check PROVE KeptOK'
  <2>1. Left' = {} \/ Left' = {"mkdir", "packages"}
    BY <1>2, ListsSorted DEF Check, GoOn, Left
  <2>2. UNCHANGED <<config, dirs, copies, own, collided, mode, stamp>>
    BY <1>2 DEF Check, host, ghosts
  <2>3. Safe' <=> Safe
    BY <2>2 DEF Safe
  <2> QED
    BY <1>0, <2>1, <2>2, <2>3 DEF KeptOK
<1>3. ASSUME ChangeFirewall PROVE KeptOK'
  <2>1. Left' = Left \ {Head(todo)}
    BY <1>0, <1>3, Taken DEF ChangeFirewall, GoOn
  <2>2. UNCHANGED <<config, dirs, copies, own, collided, mode, stamp>>
    BY <1>3 DEF ChangeFirewall, run, host
  <2>3. Head(todo) \notin {"copy", "mkdir"}
    BY <1>3 DEF ChangeFirewall
  <2> QED
    BY <1>0, <2>1, <2>2, <2>3, KeptSame
<1>4. ASSUME VerifyConfig PROVE KeptOK'
  <2>1. Left' = {}
    BY <1>4, NothingLeft DEF VerifyConfig
  <2> QED
    BY <1>0, <1>4, <2>1, KeptSame DEF VerifyConfig, host, ghosts
<1>5. ASSUME OperatorEdits PROVE KeptOK'
  <2>1. Left' = {} /\ UNCHANGED <<dirs, copies, collided>> /\ own' = config'
    BY <1>5, NothingLeft DEF OperatorEdits, Running
  <2> QED
    BY <1>0, <2>1 DEF KeptOK
<1>6. ASSUME Tick \/ UNCHANGED linuxVars PROVE KeptOK'
  <2>1. UNCHANGED <<config, dirs, copies, own, collided, mode, stamp, todo>>
    BY <1>6 DEF Tick, linuxVars, host, ghosts
  <2>2. Left' = Left
    BY <2>1 DEF Left
  <2> QED
    BY <1>0, <2>1, <2>2, KeptSame
<1> QED
  BY <1>1, <1>2, <1>3, <1>4, <1>5, <1>6, KeptMkdir, KeptPackages, KeptCopy, KeptStop, KeptEdit,
     KeptTest, KeptInstall, KeptRollback DEF LinuxNext, Command

LEMMA KeptInvariant == LinuxSpec => []KeptInv
<1>1. LinuxInit => KeptInv
  BY LinuxTypeInit, TodoInit, KeptInit DEF KeptInv
<1>2. KeptInv /\ [LinuxNext]_linuxVars => KeptInv'
  BY LinuxTypeStep, TodoStep, KeptStep DEF KeptInv
<1> QED
  BY <1>1, <1>2, PTL DEF LinuxSpec

\* No run, failure or kill loses the file that an operator last chose, unless two
\* processes of one second share a backup directory.
THEOREM FilesAreKept == LinuxSpec => []NothingUnrecoverable
<1>1. KeptInv => NothingUnrecoverable
  BY DEF KeptInv, KeptOK, Safe, NothingUnrecoverable
<1> QED
  BY <1>1, KeptInvariant, PTL

\* Whatever a process is doing, in plan and audit mode the host stays as it is.
THEOREM PlansAreHarmless == LinuxSpec => PlanChangesNothing
<1>1. KeptInv /\ [LinuxNext]_linuxVars => [Running /\ mode \in {"audit", "plan"} => UNCHANGED host]_linuxVars
  <2> SUFFICES ASSUME KeptInv, LinuxNext, Running, mode \in {"audit", "plan"}
               PROVE  UNCHANGED host
    OBVIOUS
  <2>1. /\ Head(todo) \in Left
        /\ mode = "audit" => Left \subseteq {"check"}
        /\ "install" \notin Left
    BY Ordered DEF KeptInv, TodoOK
  <2>2. CASE mode = "audit"
    <3>1. Check \/ Stop \/ Tick
      BY <2>1, <2>2 DEF LinuxNext, Command, Start, StartRollback, Mkdir, Packages, ChangeFirewall,
                        CopyConfig, EditConfig, TestConfig, InstallCopy, VerifyConfig, OperatorEdits
    <3>2. Head(todo) = "check"
      BY <2>1, <2>2
    <3> QED
      BY <2>2, <3>1, <3>2 DEF Check, Stop, run, Interrupted, Tick, host
  <2>3. CASE mode = "plan"
    BY <2>1, <2>3 DEF LinuxNext, Command, Start, StartRollback, Check, Mkdir, Packages, ChangeFirewall,
                      CopyConfig, EditConfig, TestConfig, InstallCopy, VerifyConfig, OperatorEdits,
                      Stop, Tick, run, host
  <2> QED
    BY <2>2, <2>3
<1> QED
  BY <1>1, KeptInvariant, PTL DEF LinuxSpec, PlanChangesNothing-----------------------------------------------------------------------------
(* The firewall. *)

CutOff(t) == firewall[t].active /\ ~firewall[t].reach
Excused == cut \/ (mode = "apply" /\ Pending # {})

\* Only the tool in use can shut SSH out, so that no other apply turns to another tool.
\* The rule for SSH is there before ufw is turned on and before firewalld is reloaded.
FirewallOK ==
    /\ \A t \in Tool : CutOff(t) => t = ActiveTool /\ Added \subseteq installed /\ Excused
    /\ mode = "apply" /\ FirewallWords \cap Left # {} => Added \subseteq installed
    /\ mode = "apply" /\ "enable" \in Left /\ "permit" \notin Left => firewall[ActiveTool].reach
    /\ mode = "apply" /\ "reload" \in Left /\ "add" \notin Left => firewall[ActiveTool].permitted

FirewallInv == LinuxTypeOK /\ TodoOK /\ FirewallOK

LEMMA FirewallInit == LinuxInit => FirewallOK
<1> SUFFICES ASSUME LinuxInit PROVE FirewallOK
  OBVIOUS
<1>1. mode = "audit" /\ firewall \in [Tool -> Firewalls]
  BY DEF LinuxInit
<1>2. \A t \in Tool : ~CutOff(t)
  BY <1>1, ReachableAssumption DEF CutOff
<1> QED
  BY <1>1, <1>2 DEF FirewallOK

\* Steps that leave the firewall and its commands alone, and the ends of processes.
LEMMA FirewallSame ==
    ASSUME FirewallOK, UNCHANGED <<firewall, installed, manager>>,
           \/ FirewallWords \cap Left' = {} /\ (Excused => cut')
           \/ mode' = mode /\ (cut => cut') /\ FirewallWords \cap Left' = FirewallWords \cap Left
    PROVE  FirewallOK'
<1>1. ActiveTool' = ActiveTool /\ Added' = Added
  BY DEF ActiveTool, Added
<1>2. \A t \in Tool : CutOff(t)' <=> CutOff(t)
  BY DEF CutOff
<1>3. Excused => Excused'
  BY DEF Excused, Pending, Left, FirewallWords
<1>4. CASE FirewallWords \cap Left' = {}
  BY <1>1, <1>2, <1>3, <1>4 DEF FirewallOK, FirewallWords
<1>5. CASE mode' = mode /\ FirewallWords \cap Left' = FirewallWords \cap Left
  BY <1>1, <1>2, <1>3, <1>5 DEF FirewallOK, FirewallWords
<1> QED
  BY <1>4, <1>5

\* Without a command for it ahead, only an apply that was stopped accounts for it.
LEMMA ExcusedByStop ==
    ASSUME FirewallWords \cap Left = {} \/ mode # "apply"
    PROVE  Excused => cut
  BY DEF Excused, Pending, Left, FirewallWords

LEMMA FirewallPackages ==
    ASSUME FirewallInv, Packages
    PROVE  FirewallOK'
<1>1. Running /\ Head(todo) = "packages" /\ UNCHANGED <<manager, mode, cut>>
  BY DEF Packages, ghosts
<1>2. FirewallWords \cap Left = {}
  BY <1>1, Ordered DEF FirewallInv, TodoOK, FirewallWords
<1>3. Excused => cut
  BY <1>2, ExcusedByStop
<1>4. firewall' = firewall /\ Added' = Added
  BY <1>1 DEF Packages, run, host, Added
<1>5. mode = "apply" => installed' = installed \cup Added
  BY DEF Packages, run
<1>6. mode = "plan" \/ mode = "apply"
  BY <1>1, Ordered DEF FirewallInv, TodoOK, LinuxTypeOK
<1>7. installed' = installed \/ installed' = installed \cup Added
  BY DEF Packages, run, host
<1>8. Added \subseteq installed => ActiveTool' = ActiveTool /\ Added' \subseteq installed'
  BY <1>4, <1>7 DEF ActiveTool
<1>9. \A t \in Tool : CutOff(t)' <=> CutOff(t)
  BY <1>4 DEF CutOff
<1>10. cut => Excused'
  BY <1>1 DEF Excused
<1>11. ("enable" \in Left' => "permit" \in Left') /\ ("reload" \in Left' => "add" \in Left')
  <2>1. Left' = Range(FirewallCommands(installed')) \cup Range(SshCommands)
    BY PackagesList
  <2>2. \/ Range(FirewallCommands(installed')) = {"deny", "permit", "enable"}
        \/ Range(FirewallCommands(installed')) = {"start", "add", "reload"}
        \/ Range(FirewallCommands(installed')) = {}
    BY FirewallListSorted
  <2>3. Range(SshCommands) \subseteq SshWords
    BY SshListSorted
  <2> QED
    BY <2>1, <2>2, <2>3 DEF SshWords
<1>12. \A t \in Tool : CutOff(t)' => t = ActiveTool' /\ Added' \subseteq installed' /\ Excused'
  BY <1>3, <1>8, <1>9, <1>10 DEF FirewallInv, FirewallOK
<1>13. mode' = "apply" => Added' \subseteq installed'
  BY <1>1, <1>4, <1>5
<1> QED
  BY <1>11, <1>12, <1>13 DEF FirewallOK

\* What a command does to the tool in use.
LEMMA AfterCommand ==
    ASSUME NEW f \in Firewall, NEW command \in FirewallWords
    PROVE  LET g == After(command, f) IN
           /\ f.active \/ command \in {"enable", "start"} => g.active
           /\ command \in {"enable", "start"} \/ (g.active <=> f.active)
           /\ command = "permit" => g.reach
           /\ command \in {"enable", "add"} => (g.reach <=> f.reach)
           /\ command = "reload" => (g.reach <=> f.permitted)
           /\ command = "add" => g.permitted
  BY DEF After, Firewall, FirewallWords
LEMMA FirewallChange ==
    ASSUME FirewallInv, ChangeFirewall
    PROVE  FirewallOK'
<1>1. Running /\ Head(todo) \in FirewallWords /\ todo' = Tail(todo) /\ UNCHANGED <<manager, mode>>
  BY DEF ChangeFirewall, GoOn, FirewallWords
<1>2. Head(todo) \in Left /\ Left' = Left \ {Head(todo)}
  BY <1>1, Ordered, Taken DEF FirewallInv
<1>3. mode \in {"plan", "apply"}
  BY <1>1, <1>2 DEF FirewallInv, TodoOK, LinuxTypeOK, FirewallWords
<1>4. CASE mode = "plan"
  <2>1. UNCHANGED <<firewall, installed>> /\ cut' = cut
    BY <1>4 DEF ChangeFirewall, run, host, FirewallInv, LinuxTypeOK
  <2>2. ActiveTool' = ActiveTool /\ Added' = Added
    BY <1>1, <2>1 DEF ActiveTool, Added
  <2>3. \A t \in Tool : CutOff(t)' <=> CutOff(t)
    BY <2>1 DEF CutOff
  <2>4. Excused => Excused'
    BY <1>4, <2>1 DEF Excused
  <2> QED
    BY <1>1, <1>4, <2>1, <2>2, <2>3, <2>4 DEF FirewallInv, FirewallOK
<1>5. CASE mode = "apply"
  <2> DEFINE c == Head(todo)
             f == firewall[ActiveTool]
             g == After(c, f)
  <2>1. ActiveTool \in Tool /\ f \in Firewall
    BY DEF ActiveTool, Tool, FirewallInv, LinuxTypeOK
  <2>2. firewall' = [firewall EXCEPT ![ActiveTool] = g] /\ installed' = installed
    BY <1>5 DEF ChangeFirewall, run
  <2>3. ActiveTool' = ActiveTool /\ Added' = Added
    BY <1>1, <2>2 DEF ActiveTool, Added
  <2>4. firewall'[ActiveTool] = g /\ \A t \in Tool : t # ActiveTool => firewall'[t] = firewall[t]
    BY <2>1, <2>2 DEF FirewallInv, LinuxTypeOK
  <2>5. Added \subseteq installed
    BY <1>1, <1>2, <1>5 DEF FirewallInv, FirewallOK
  <2>6. cut' = (cut /\ c \notin {"permit", "reload"})
    BY <1>5 DEF ChangeFirewall, FirewallInv, LinuxTypeOK
  <2>7. /\ f.active \/ c \in {"enable", "start"} => g.active
        /\ c \in {"enable", "start"} \/ (g.active <=> f.active)
        /\ c = "permit" => g.reach
        /\ c \in {"enable", "add"} => (g.reach <=> f.reach)
        /\ c = "reload" => (g.reach <=> f.permitted)
        /\ c = "add" => g.permitted
    BY <1>1, <2>1, AfterCommand
  <2>8. \A d \in Left' : d # c /\ d \in Left
    BY <1>2
  <2>9. c = "enable" => f.reach
    <3>1. c = "enable" => "permit" \notin Left
      BY <1>1, Ordered DEF Rank, FirewallInv
    <3> QED
      BY <1>2, <1>5, <3>1 DEF FirewallInv, FirewallOK
  <2>10. c = "reload" => f.permitted
    <3>1. c = "reload" => "add" \notin Left
      BY <1>1, Ordered DEF Rank, FirewallInv
    <3> QED
      BY <1>2, <1>5, <3>1 DEF FirewallInv, FirewallOK
  <2>11. ASSUME c \notin {"permit", "reload", "enable"} PROVE Excused'
    <3>1. c \in {"deny", "start", "add"}
      BY <1>1, <2>11 DEF FirewallWords
    <3>2. "permit" \in Left' \/ "add" \in Left' \/ "reload" \in Left'
      BY <1>2, <3>1 DEF FirewallInv, TodoOK
    <3> QED
      BY <1>1, <1>5, <3>2 DEF Excused, Pending, Left
  <2>12. CutOff(ActiveTool)' => Excused'
    <3> SUFFICES ASSUME g.active, ~g.reach PROVE Excused'
      BY <2>3, <2>4 DEF CutOff
    <3> QED
      BY <2>7, <2>9, <2>10, <2>11
  <2>13. \A t \in Tool : CutOff(t)' => t = ActiveTool
    <3>1. \A t \in Tool : t # ActiveTool => (CutOff(t)' <=> CutOff(t))
      BY <2>4 DEF CutOff
    <3> QED
      BY <3>1 DEF FirewallInv, FirewallOK
  <2>14. "enable" \in Left' /\ "permit" \notin Left' => g.reach
    <3> SUFFICES ASSUME "enable" \in Left', "permit" \notin Left' PROVE g.reach
      OBVIOUS
    <3>1. CASE c = "permit"
      BY <2>7, <3>1
    <3>2. CASE c # "permit"
      <4>1. f.reach /\ "enable" \in Left /\ "permit" \notin Left
        BY <1>2, <1>5, <3>2 DEF FirewallInv, FirewallOK
      <4>2. c # "deny"
        BY <1>2, <4>1 DEF FirewallInv, TodoOK
      <4>3. c \notin {"start", "enable"}
        BY <1>2, <4>1 DEF FirewallInv, TodoOK
      <4>4. c # "reload"
        BY <1>1, <4>1, Ordered DEF FirewallInv, Rank
      <4> QED
        BY <1>1, <2>7, <4>1, <4>2, <4>3, <4>4 DEF FirewallWords
    <3> QED
      BY <3>1, <3>2
  <2>15. "reload" \in Left' /\ "add" \notin Left' => g.permitted
    <3> SUFFICES ASSUME "reload" \in Left', "add" \notin Left' PROVE g.permitted
      OBVIOUS
    <3>1. CASE c = "add"
      BY <2>7, <3>1
    <3>2. CASE c # "add"
      <4>1. f.permitted
        BY <1>2, <1>5, <3>2 DEF FirewallInv, FirewallOK
      <4> QED
        BY <1>1, <2>1, <4>1 DEF After, Firewall, FirewallWords
    <3> QED
      BY <3>1, <3>2
  <2> HIDE DEF c, f, g
  <2> QED
    BY <2>2, <2>3, <2>4, <2>5, <2>12, <2>13, <2>14, <2>15 DEF FirewallOK
<1> QED
  BY <1>3, <1>4, <1>5
LEMMA FirewallStep == FirewallInv /\ [LinuxNext]_linuxVars => FirewallOK'
<1> SUFFICES ASSUME FirewallInv, [LinuxNext]_linuxVars PROVE FirewallOK'
  OBVIOUS
<1>0. LinuxTypeOK /\ TodoOK /\ FirewallOK
  BY DEF FirewallInv
<1>1. ASSUME ~Running, UNCHANGED <<firewall, installed, manager, cut>>,
             FirewallWords \cap Left' = {}
      PROVE  FirewallOK'
  <2>1. Left = {}
    BY <1>1, ListsSorted DEF Running, Left
  <2> QED
    BY <1>0, <1>1, <2>1, ExcusedByStop, FirewallSame
<1>2. ASSUME NEW m \in {"audit", "plan", "apply"}, Start(m) PROVE FirewallOK'
  <2>1. Left' \subseteq {"check"}
    BY <1>2, ListsSorted DEF Start, Left
  <2> QED
    BY <1>1, <1>2, <2>1 DEF Start, host, ghosts, FirewallWords
<1>3. ASSUME StartRollback PROVE FirewallOK'
  <2>1. Left' \subseteq {"install", "verify"}
    BY <1>3, ListsSorted DEF StartRollback, Left
  <2> QED
    BY <1>1, <1>3, <2>1 DEF StartRollback, host, FirewallWords
<1>4. ASSUME OperatorEdits PROVE FirewallOK'
  <2>1. FirewallWords \cap Left' = {}
    BY <1>4, NothingLeft DEF OperatorEdits, Running
  <2> QED
    BY <1>1, <1>4, <2>1 DEF OperatorEdits
<1>5. ASSUME Tick \/ UNCHANGED linuxVars PROVE FirewallOK'
  <2>1. UNCHANGED <<firewall, installed, manager, mode, cut, todo>>
    BY <1>5 DEF Tick, linuxVars, host, ghosts
  <2>2. Left' = Left
    BY <2>1 DEF Left
  <2> QED
    BY <1>0, <2>1, <2>2, FirewallSame
<1>6. ASSUME Check PROVE FirewallOK'
  <2>1. Left = {"check"} /\ UNCHANGED <<firewall, installed, manager, cut>>
    BY <1>0, <1>6, Ordered DEF Check, host, ghosts, TodoOK
  <2>2. Left' = {} \/ Left' = {"mkdir", "packages"}
    BY <1>6, ListsSorted DEF Check, GoOn, Left
  <2> QED
    BY <1>0, <2>1, <2>2, ExcusedByStop, FirewallSame DEF FirewallWords
<1>7. ASSUME Mkdir \/ CopyConfig \/ EditConfig \/ InstallCopy PROVE FirewallOK'
  <2>1. Running /\ todo' = Tail(todo) /\ UNCHANGED <<firewall, installed, manager, mode, cut>>
    BY <1>7 DEF Mkdir, CopyConfig, EditConfig, InstallCopy, GoOn, run, host, ghosts
  <2>2. Head(todo) \notin FirewallWords
    BY <1>7 DEF Mkdir, CopyConfig, EditConfig, InstallCopy, FirewallWords
  <2>3. Left' = Left \ {Head(todo)}
    BY <1>0, <2>1, Taken
  <2> QED
    BY <1>0, <2>1, <2>2, <2>3, FirewallSame
<1>8. ASSUME TestConfig \/ VerifyConfig PROVE FirewallOK'
  <2>1. /\ Running /\ Head(todo) \in {"test", "verify"} /\ todo' = <<>>
        /\ UNCHANGED <<firewall, installed, manager, cut>>
    BY <1>8 DEF TestConfig, VerifyConfig, GoOn, host, ghosts
  <2>2. FirewallWords \cap Left = {}
    BY <1>0, <2>1, Ordered DEF Rank, FirewallWords
  <2>3. Left' = {}
    BY <2>1, NothingLeft
  <2> QED
    BY <1>0, <2>1, <2>2, <2>3, ExcusedByStop, FirewallSame
<1>9. ASSUME Stop PROVE FirewallOK'
  <2>1. Left' = {} /\ UNCHANGED <<firewall, installed, manager>>
    BY <1>9, NothingLeft DEF Stop, run, host, Interrupted
  <2>2. Excused => cut'
    BY <1>9 DEF Stop, Excused
  <2> QED
    BY <1>0, <2>1, <2>2, FirewallSame
<1> QED
  BY <1>2, <1>3, <1>4, <1>5, <1>6, <1>7, <1>8, <1>9, FirewallPackages, FirewallChange
     DEF LinuxNext, Command

LEMMA FirewallInvariant == LinuxSpec => []FirewallInv
<1>1. LinuxInit => FirewallInv
  BY LinuxTypeInit, TodoInit, FirewallInit DEF FirewallInv
<1>2. FirewallInv /\ [LinuxNext]_linuxVars => FirewallInv'
  BY LinuxTypeStep, TodoStep, FirewallStep DEF FirewallInv
<1> QED
  BY <1>1, <1>2, PTL DEF LinuxSpec

\* On a host that was within reach, a firewall that keeps SSH out is in the hands of an
\* apply that is about to let it in, or of one that was stopped before it could.
THEOREM CutOffIsAStop == LinuxSpec => []CutOffOnlyIfStopped
<1>1. FirewallInv => CutOffOnlyIfStopped
  BY DEF FirewallInv, FirewallOK, CutOff, Excused, CutOffOnlyIfStopped
<1> QED
  BY <1>1, FirewallInvariant, PTL

-----------------------------------------------------------------------------
(* A hardened host. *)

\* The tool in use runs and lets SSH in, and the two settings are as wanted, but for
\* what commands ahead will do.
NetworkSet ==
    ActiveTool \in installed =>
        /\ {"enable", "start"} \cap Left # {} \/ firewall[ActiveTool].active
        /\ {"permit", "reload"} \cap Left # {} \/ firewall[ActiveTool].reach

LinesSet ==
    \/ config.kind = "none"
    \/ /\ "root" \in Left \/ config.root \in {"no", "match"}
       /\ "empty" \in Left \/ config.empty \in {"no", "match"}
       /\ "test" \in Left \/ config.ok

Prepared == {"check", "mkdir", "packages"} \cap Left = {}
HardenedOK == Running /\ mode = "apply" /\ Prepared => NetworkSet /\ LinesSet

\* What an apply found whose checks did not fail, and keeps.
Passing ==
    installed # {} /\ config.ok /\ config.root = "no" /\ config.empty # "other"

PassingOK == Running /\ mode = "apply" /\ "check" \notin Left /\ ~failures => Passing
HardenedInv == FirewallInv /\ HardenedOK /\ PassingOK

LEMMA HardenedPackages ==
    ASSUME HardenedInv, Packages, mode = "apply"
    PROVE  NetworkSet' /\ LinesSet'
<1>1. Left' = Range(FirewallCommands(installed')) \cup Range(SshCommands)
  BY PackagesList
<1>2. Range(SshCommands) = IF config.kind = "none" THEN {} ELSE SshWords
  BY SshListSorted
<1>3. config' = config /\ installed' \subseteq Tool
  BY DEF Packages, run, Added, Tool, HardenedInv, FirewallInv, LinuxTypeOK
<1>4. LinesSet'
  BY <1>1, <1>2, <1>3 DEF LinesSet, SshWords
<1>5. CASE "ufw" \in installed'
  <2>1. {"permit", "enable"} \subseteq Left'
    BY <1>1, <1>5, FirewallListSorted
  <2> QED
    BY <1>4, <2>1 DEF NetworkSet
<1>6. CASE installed' = {"firewalld"}
  <2>1. "ufw" \notin installed'
    BY <1>6
  <2>2. {"start", "reload"} \subseteq Left'
    BY <1>1, <1>6, <2>1, FirewallListSorted
  <2> QED
    BY <1>4, <2>2 DEF NetworkSet
<1>7. CASE installed' = {}
  BY <1>4, <1>7 DEF NetworkSet
<1> QED
  BY <1>3, <1>5, <1>6, <1>7 DEF Tool

LEMMA HardenedFirewall ==
    ASSUME HardenedInv, ChangeFirewall, mode = "apply"
    PROVE  NetworkSet' /\ LinesSet'
<1>1. Running /\ Head(todo) \in FirewallWords /\ todo' = Tail(todo) /\ UNCHANGED <<manager, mode>>
  BY DEF ChangeFirewall, GoOn, FirewallWords
<1>2. Head(todo) \in Left /\ Left' = Left \ {Head(todo)}
  BY <1>1, Ordered, Taken DEF HardenedInv, FirewallInv
<1>3. Prepared
  BY <1>1, Ordered DEF HardenedInv, FirewallInv, Prepared, Rank, FirewallWords
<1>4. NetworkSet /\ LinesSet
  BY <1>1, <1>3 DEF HardenedInv, HardenedOK
<1> DEFINE c == Head(todo)
           f == firewall[ActiveTool]
           g == After(c, f)
<1>5. ActiveTool \in Tool /\ f \in Firewall
  BY DEF ActiveTool, Tool, HardenedInv, FirewallInv, LinuxTypeOK
<1>6. firewall' = [firewall EXCEPT ![ActiveTool] = g] /\ UNCHANGED <<config, installed>>
  BY DEF ChangeFirewall, run
<1>7. ActiveTool' = ActiveTool /\ firewall'[ActiveTool'] = g
  BY <1>5, <1>6 DEF ActiveTool, HardenedInv, FirewallInv, LinuxTypeOK
<1>8. LinesSet'
  BY <1>1, <1>2, <1>4, <1>6 DEF LinesSet, FirewallWords
<1>9. /\ f.active \/ c \in {"enable", "start"} => g.active
      /\ c = "permit" => g.reach
      /\ c \in {"enable", "add"} => (g.reach <=> f.reach)
      /\ c = "reload" => (g.reach <=> f.permitted)
  BY <1>1, <1>5, AfterCommand
<1>10. {"enable", "start"} \cap Left # {} \/ f.active =>
          {"enable", "start"} \cap Left' # {} \/ g.active
  BY <1>2, <1>9
<1>11. c = "reload" => f.permitted
  <2>1. c = "reload" => "add" \notin Left
    BY <1>1, Ordered DEF Rank, HardenedInv, FirewallInv
  <2> QED
    BY <1>2, <2>1 DEF HardenedInv, FirewallInv, FirewallOK
<1>12. c = "deny" => "permit" \in Left'
  BY <1>2 DEF HardenedInv, FirewallInv, TodoOK
<1>13. c = "start" => "reload" \in Left'
  BY <1>2 DEF HardenedInv, FirewallInv, TodoOK
<1>14. {"permit", "reload"} \cap Left # {} \/ f.reach =>
          {"permit", "reload"} \cap Left' # {} \/ g.reach
  <2>1. c \in {"deny", "start", "permit", "add", "enable", "reload"}
    BY <1>1 DEF FirewallWords
  <2> QED
    BY <1>2, <1>9, <1>11, <1>12, <1>13, <2>1
<1> HIDE DEF c, f, g
<1>15. NetworkSet'
  BY <1>4, <1>6, <1>7, <1>10, <1>14 DEF NetworkSet, f
<1> QED
  BY <1>8, <1>15

\* The commands on sshd_config.
LEMMA HardenedFile ==
    ASSUME HardenedInv, CopyConfig \/ EditConfig \/ (TestConfig /\ exit' # "invalid"), mode = "apply"
    PROVE  NetworkSet' /\ LinesSet'
<1>1. /\ Running /\ Head(todo) \in SshWords /\ UNCHANGED <<mode, firewall, installed>>
      /\ todo' = Tail(todo) \/ todo' = <<>>
  BY DEF CopyConfig, EditConfig, TestConfig, GoOn, run, host, SshWords
<1>2. {"check", "mkdir", "packages"} \cap Left = {} /\ FirewallWords \cap Left = {}
  BY <1>1, Ordered DEF HardenedInv, FirewallInv, Rank, SshWords, FirewallWords
<1>3. NetworkSet /\ LinesSet
  BY <1>1, <1>2 DEF HardenedInv, HardenedOK, Prepared
<1>4. Left' \subseteq Left
  BY <1>1, Taken, NothingLeft DEF HardenedInv, FirewallInv
<1>5. ActiveTool' = ActiveTool
  BY <1>1 DEF ActiveTool
<1>6. NetworkSet'
  BY <1>1, <1>2, <1>3, <1>4, <1>5 DEF NetworkSet, FirewallWords
<1>7. ASSUME CopyConfig PROVE LinesSet'
  <2>1. config' = config /\ Left' = Left \ {"copy"}
    BY <1>1, <1>7, Taken DEF CopyConfig, GoOn, run, host, HardenedInv, FirewallInv
  <2> QED
    BY <1>3, <2>1 DEF LinesSet
<1>8. ASSUME EditConfig PROVE LinesSet'
  <2>1. PICK key \in {"root", "empty"} : Head(todo) = key
    BY <1>8 DEF EditConfig
  <2>2. Left' = Left \ {key}
    BY <1>1, <1>8, <2>1, Taken DEF EditConfig, GoOn, HardenedInv, FirewallInv
  <2>3. config' = [config EXCEPT ![key] = Edited(config[key])]
    BY <1>8, <2>1 DEF EditConfig, run
  <2>4. Edited(config[key]) \in {"no", "match"}
    BY DEF Edited
  <2>5. config' \in [kind : {config.kind}, root : {config'.root}, empty : {config'.empty},
                     match : BOOLEAN, ok : BOOLEAN]
    BY <2>3, <2>1 DEF HardenedInv, FirewallInv, LinuxTypeOK, Config
  <2>6. config'[key] \in {"no", "match"} /\ config'.ok = config.ok
        /\ \A other \in {"root", "empty"} : other # key => config'[other] = config[other]
    BY <2>1, <2>3, <2>4 DEF HardenedInv, FirewallInv, LinuxTypeOK, Config
  <2>7. CASE key = "root"
    BY <1>3, <2>2, <2>5, <2>6, <2>7 DEF LinesSet
  <2>8. CASE key = "empty"
    BY <1>3, <2>2, <2>5, <2>6, <2>8 DEF LinesSet
  <2> QED
    BY <2>1, <2>7, <2>8
<1>9. ASSUME TestConfig, exit' # "invalid" PROVE LinesSet'
  <2>1. config' = config /\ Head(todo) = "test"
    BY <1>9 DEF TestConfig
  <2>2. "root" \notin Left /\ "empty" \notin Left
    BY <1>1, <2>1, Ordered DEF HardenedInv, FirewallInv, Rank
  <2>3. config.ok
    BY <1>9 DEF TestConfig
  <2> QED
    BY <1>3, <2>1, <2>2, <2>3 DEF LinesSet
<1> QED
  BY <1>6, <1>7, <1>8, <1>9

\* An apply that goes on, or comes to its end, keeps to it.
LEMMA HardenedCommand ==
    ASSUME HardenedInv, mode = "apply", Running, LinuxNext, ~Stop, exit' # "invalid", ~Tick
    PROVE  mode' = "apply" /\ (Prepared' => NetworkSet' /\ LinesSet')
<1>1. Command
  BY DEF LinuxNext, Start, StartRollback, OperatorEdits
<1>2. mode' = mode
  BY <1>1 DEF Command, Check, Mkdir, Packages, ChangeFirewall, CopyConfig, EditConfig, TestConfig,
              InstallCopy, VerifyConfig
<1>3. ASSUME Check PROVE ~Prepared'
  BY <1>3, ListsSorted DEF Check, GoOn, Left, Prepared
<1>4. ASSUME Mkdir PROVE ~Prepared'
  <2>1. "packages" \in Left' 
    BY <1>4, Ordered, Taken DEF Mkdir, GoOn, HardenedInv, FirewallInv, TodoOK
  <2> QED
    BY <2>1 DEF Prepared
<1>5. ~InstallCopy /\ ~VerifyConfig
  BY Ordered DEF InstallCopy, VerifyConfig, HardenedInv, FirewallInv, TodoOK
<1> QED
  BY <1>1, <1>2, <1>3, <1>4, <1>5, HardenedPackages, HardenedFirewall, HardenedFile DEF Command

LEMMA HardenedStep == HardenedInv /\ [LinuxNext]_linuxVars => HardenedOK'
<1> SUFFICES ASSUME HardenedInv, [LinuxNext]_linuxVars, Running', mode' = "apply", Prepared'
             PROVE  NetworkSet' /\ LinesSet'
  BY DEF HardenedOK
<1>1. ASSUME ~Running PROVE Tick \/ UNCHANGED linuxVars
  <2>1. ASSUME NEW m \in {"audit", "plan", "apply"}, Start(m) PROVE FALSE
    <3>1. todo' = <<"check">> \/ todo' = <<>>
      BY <2>1 DEF Start
    <3>2. "check" \in Left'
      BY <3>1, ListsSorted DEF Left, Running
    <3> QED
      BY <3>2 DEF Prepared
  <2> QED
    BY <1>1, <2>1 DEF LinuxNext, StartRollback, Command, Check, Mkdir, Packages, ChangeFirewall,
                      CopyConfig, EditConfig, TestConfig, InstallCopy, VerifyConfig, Stop,
                      OperatorEdits, Running
<1>2. ASSUME Tick \/ UNCHANGED linuxVars PROVE NetworkSet' /\ LinesSet'
  <2>1. UNCHANGED <<config, firewall, installed, mode, todo>>
    BY <1>2 DEF Tick, linuxVars, host
  <2>2. Left' = Left /\ ActiveTool' = ActiveTool
    BY <2>1 DEF Left, ActiveTool
  <2>3. NetworkSet /\ LinesSet
    BY <2>1, <2>2 DEF HardenedInv, HardenedOK, Running, Prepared
  <2> QED
    BY <2>1, <2>2, <2>3 DEF NetworkSet, LinesSet
<1>3. ASSUME Running, LinuxNext, ~Tick PROVE NetworkSet' /\ LinesSet'
  <2>1. ~Stop /\ exit' # "invalid"
    <3>1. TodoOK'
      BY TodoStep DEF HardenedInv, FirewallInv
    <3> QED
      BY <3>1 DEF Stop, Running, TodoOK
  <2>2. mode = "apply"
    BY <1>3 DEF LinuxNext, Start, StartRollback, OperatorEdits, Command, Check, Mkdir, Packages,
                ChangeFirewall, CopyConfig, EditConfig, TestConfig, InstallCopy, VerifyConfig, Stop
  <2> QED
    BY <1>3, <2>1, <2>2, HardenedCommand
<1> QED
  BY <1>1, <1>2, <1>3

\* An edit keeps what is as wanted, and so do all other commands.
LEMMA PassingCommand ==
    ASSUME HardenedInv, mode = "apply", Running, Command, "check" \notin Left, ~failures,
           exit' # "invalid"
    PROVE  Passing'
<1>1. Passing /\ config \in Config
  BY DEF HardenedInv, PassingOK, FirewallInv, LinuxTypeOK
<1>2. ~Check /\ ~InstallCopy /\ ~VerifyConfig
  BY Ordered DEF Check, InstallCopy, VerifyConfig, HardenedInv, FirewallInv, TodoOK
<1>3. ASSUME EditConfig PROVE Passing'
  <2>1. PICK key \in {"root", "empty"} : config' = [config EXCEPT ![key] = Edited(config[key])]
    BY <1>3 DEF EditConfig, run
  <2>2. installed' = installed
    BY <1>3 DEF EditConfig, run
  <2>3. Edited(config[key]) # "other" /\ (config[key] = "no" => Edited(config[key]) = "no")
    BY DEF Edited
  <2>4. CASE key = "root"
    BY <1>1, <2>1, <2>2, <2>3, <2>4 DEF Passing, Config
  <2>5. CASE key = "empty"
    BY <1>1, <2>1, <2>2, <2>3, <2>5 DEF Passing, Config
  <2> QED
    BY <2>1, <2>4, <2>5
<1>4. ASSUME Mkdir \/ Packages \/ ChangeFirewall \/ CopyConfig \/ TestConfig PROVE Passing'
  <2>1. config' = config /\ installed \subseteq installed'
    BY <1>4 DEF Mkdir, Packages, ChangeFirewall, CopyConfig, TestConfig, run
  <2> QED
    BY <1>1, <2>1 DEF Passing
<1> QED
  BY <1>2, <1>3, <1>4 DEF Command

LEMMA PassingStep == HardenedInv /\ [LinuxNext]_linuxVars => PassingOK'
<1> SUFFICES ASSUME HardenedInv, [LinuxNext]_linuxVars,
                    Running', mode' = "apply", "check" \notin Left', ~failures'
             PROVE  Passing'
  BY DEF PassingOK
<1>1. exit' = "none"
  BY TodoStep DEF HardenedInv, FirewallInv, TodoOK
<1>2. CASE Tick \/ UNCHANGED linuxVars
  <2>1. UNCHANGED <<config, installed, mode, todo, failures>>
    BY <1>2 DEF Tick, linuxVars, host
  <2> QED
    BY <2>1 DEF HardenedInv, PassingOK, Passing, Running, Left
<1>3. CASE Check
  <2>1. mode = "apply" /\ UNCHANGED <<config, installed>>
    BY <1>3 DEF Check, host
  <2>2. \E updates \in BOOLEAN :
           /\ todo' = <<"mkdir", "packages">>
           /\ failures' = ((updates \/ ~check_firewall \/ ~check_root_login \/ ~check_empty_passwords)
                             /\ <<"mkdir", "packages">> # <<>>)
    BY <1>3, <2>1 DEF Check, GoOn
  <2>3. check_firewall /\ check_root_login /\ check_empty_passwords
    BY <2>2
  <2> QED
    BY <2>1, <2>3 DEF Passing, check_firewall, check_root_login, check_empty_passwords
<1>4. CASE Command /\ ~Check
  <2>1. Running /\ mode = "apply"
    BY <1>4 DEF Command, Mkdir, Packages, ChangeFirewall, CopyConfig, EditConfig, TestConfig,
                InstallCopy, VerifyConfig
  <2>2. "check" \notin Left
    BY <1>4, <2>1, Ordered DEF Command, Mkdir, Packages, ChangeFirewall, CopyConfig, EditConfig,
          TestConfig, InstallCopy, VerifyConfig, HardenedInv, FirewallInv, TodoOK
  <2>3. ~failures
    BY <1>4 DEF Command, Mkdir, Packages, ChangeFirewall, CopyConfig, EditConfig,
                TestConfig, InstallCopy, VerifyConfig, GoOn, Running
  <2> QED
    BY <1>1, <1>4, <2>1, <2>2, <2>3, PassingCommand
<1>5. CASE \E m \in {"audit", "plan", "apply"} : Start(m)
  <2>1. Left' = {"check"}
    BY <1>5, ListsSorted DEF Start, Left, Running
  <2> QED
    BY <2>1
<1>6. CASE StartRollback \/ Stop \/ OperatorEdits
  BY <1>6 DEF StartRollback, Stop, OperatorEdits, Running
<1> QED
  BY <1>2, <1>3, <1>4, <1>5, <1>6 DEF LinuxNext

LEMMA HardenedInvariant == LinuxSpec => []HardenedInv
<1>1. LinuxInit => HardenedInv
  BY LinuxTypeInit, TodoInit, FirewallInit DEF HardenedInv, FirewallInv, HardenedOK, PassingOK, LinuxInit
<1>2. HardenedInv /\ [LinuxNext]_linuxVars => HardenedInv'
  BY LinuxTypeStep, TodoStep, FirewallStep, HardenedStep, PassingStep DEF HardenedInv, FirewallInv
<1> QED
  BY <1>1, <1>2, PTL DEF LinuxSpec

\* An apply that exits 0 leaves a host that passes the checks on its firewall and on
\* both settings, with SSH let in, whatever it found; one that exits 1 as well, but for
\* a host without a firewall tool, one without sshd_config, and one where
\* PermitRootLogin stands in a Match block only.
THEOREM AppliedIsHardened == LinuxSpec => AppliedMeansHardened
<1> DEFINE Hardens ==
      mode = "apply" /\ Running /\ exit' \in {"pass", "fail"} =>
         /\ \/ (check_firewall /\ firewall[ActiveTool].reach)'
            \/ exit' = "fail" /\ installed' = {}
         /\ \/ check_root_login'
            \/ exit' = "fail" /\ (config'.kind = "none" \/ config'.root = "match")
         /\ \/ check_empty_passwords'
            \/ exit' = "fail" /\ config'.kind = "none"
<1>1. HardenedInv /\ [LinuxNext]_linuxVars => [Hardens]_linuxVars
  <2> SUFFICES ASSUME HardenedInv, LinuxNext, mode = "apply", Running, exit' \in {"pass", "fail"}
               PROVE  Hardens
    OBVIOUS
  <2>1. exit = "none" /\ TodoOK' /\ LinuxTypeOK'
    BY TodoStep, LinuxTypeStep DEF HardenedInv, FirewallInv, TodoOK
  <2>2. ~Stop /\ ~Tick /\ exit' # "invalid"
    BY <2>1 DEF Stop, Tick
  <2>3. todo' = <<>>
    BY <2>1 DEF TodoOK, Running
  <2>4. Left' = {}
    BY <2>3, NothingLeft
  <2>5. NetworkSet' /\ LinesSet'
    BY <2>2, <2>4, HardenedCommand DEF Prepared
  <2>6. exit' = "pass" => Passing'
    <3>1. SUFFICES ASSUME exit' = "pass" PROVE Passing'
      OBVIOUS
    <3>2. Command /\ ~VerifyConfig /\ ~Check
      BY <2>2, <2>3, Ordered DEF LinuxNext, Start, StartRollback, OperatorEdits, VerifyConfig,
            Check, GoOn, HardenedInv, FirewallInv, TodoOK
    <3>3. ~failures
      BY <2>1, <2>3, <3>1, <3>2 DEF Command, Mkdir, Packages, ChangeFirewall, CopyConfig, EditConfig,
            TestConfig, InstallCopy, GoOn
    <3>4. "check" \notin Left
      BY <3>2, Ordered DEF Command, Mkdir, Packages, ChangeFirewall, CopyConfig, EditConfig,
            TestConfig, InstallCopy, HardenedInv, FirewallInv, TodoOK
    <3> QED
      BY <2>2, <3>2, <3>3, <3>4, PassingCommand
  <2>7. (check_firewall /\ firewall[ActiveTool].reach)' \/ (exit' = "fail" /\ installed' = {})
    <3>1. CASE installed' = {}
      BY <2>6, <3>1 DEF Passing
    <3>2. CASE installed' # {}
      <4>1. ActiveTool' \in installed' /\ ("ufw" \in installed' <=> ActiveTool' = "ufw")
        BY <2>1, <3>2 DEF ActiveTool, LinuxTypeOK, Tool
      <4>2. firewall'[ActiveTool'].active /\ firewall'[ActiveTool'].reach
        BY <2>4, <2>5, <4>1 DEF NetworkSet
      <4>3. ActiveTool' \in {"ufw", "firewalld"}
        BY DEF ActiveTool
      <4> QED
        BY <4>1, <4>2, <4>3 DEF check_firewall
    <3> QED
      BY <3>1, <3>2
  <2>8. /\ check_root_login' \/ (exit' = "fail" /\ (config'.kind = "none" \/ config'.root = "match"))
        /\ check_empty_passwords' \/ (exit' = "fail" /\ config'.kind = "none")
    <3>1. CASE exit' = "pass"
      BY <2>6, <3>1 DEF Passing, check_root_login, check_empty_passwords
    <3>2. CASE exit' = "fail"
      BY <2>4, <2>5, <3>2 DEF LinesSet, check_root_login, check_empty_passwords
    <3> QED
      BY <3>1, <3>2
  <2> QED
    BY <2>7, <2>8
<1> QED
  BY <1>1, HardenedInvariant, PTL DEF LinuxSpec, AppliedMeansHardened
=============================================================================
