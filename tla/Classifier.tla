----------------------------- MODULE Classifier ------------------------------
(* The risk classifier of kyvon-security: what assess_risk says of a command  *)
(* line before it is sent to a host. A verdict's texts are abstracted to      *)
(* whether there are any: reasons, expected impact, unknown constructs.       *)
EXTENDS ShellLine, RiskTiers

CONSTANTS
    Alphabet,    \* pieces an operator types
    MaxLine,     \* bound: pieces in a typed line
    Commands,    \* simple commands, as sequences of one-piece words
    BuiltCmds    \* commands assembled with Cmd

ASSUME ClassifierAssumption ==
    /\ MaxLine \in Nat
    /\ \A piece \in Alphabet : piece \in STRING
    /\ \A command \in Commands : command \in Seq(Seq(STRING))
    /\ \A cmd \in BuiltCmds :
          cmd \in [program : Seq(STRING), args : Seq(Seq(STRING)), sudo : BOOLEAN]

(* Cmd::new takes names and paths only, and no caller names a program that    *)
(* runs another one: they all name systemctl.                                *)
ASSUME BuiltAssumption ==
    \A cmd \in BuiltCmds :
        /\ NeedsNoQuotes(cmd.program) /\ ~IsOption(cmd.program)
        /\ Name(cmd.program) \notin {"-u", "--user"}
        /\ Base(cmd.program) \notin Wrappers \cup {"sudo", "doas", "env"}

VARIABLES
    line,   \* the command line
    built   \* the Cmd it was rendered from, if any

classifierVars == <<line, built>>

NoCmd == [program |-> <<>>, args |-> <<>>, sudo |-> FALSE]

-----------------------------------------------------------------------------
(* path.rs: prefixes that govern access to the machine, configuration, and   *)
(* the top-level directories.                                                *)
CriticalPrefixes ==
    {<<"boot">>, <<"dev">>, <<"proc">>, <<"sys">>, <<"etc", "ssh">>,
     <<"etc", "sudoers">>, <<"etc", "shadow">>, <<"etc", "passwd">>,
     <<"etc", "group">>, <<"etc", "fstab">>, <<"root", ".ssh">>}
ConfigPrefixes == {<<"etc">>, <<"usr", "lib", "systemd">>, <<"lib", "systemd">>}
TopLevel == {"bin", "sbin", "lib", "lib64", "usr", "var", "opt", "home", "srv", "run"}

IsProtected(w) ==
    LET path == PathOf(w)
    IN \/ \E c \in CriticalPrefixes \cup ConfigPrefixes : IsPrefix(c, path)
       \/ Len(path) = 1 /\ path[1] \in TopLevel

-----------------------------------------------------------------------------
Verdict(tier, reasons, impact, unknown) ==
    [tier |-> tier, reasons |-> reasons, impact |-> impact, unknown |-> unknown]

Reads == Verdict(Safe, FALSE, FALSE, FALSE)
Does(tier) == Verdict(tier, TRUE, FALSE, FALSE)
Harms(tier) == Verdict(tier, TRUE, TRUE, FALSE)
Puzzles(tier) == Verdict(tier, FALSE, FALSE, TRUE)

(* Segment::args, has_flag, has_short_flag, subcommand and operands.         *)
Args(seg) == Range(Tail(seg.words))
HasFlag(seg, flags) == \E a \in Args(seg) : Name(a) \in flags
HasShortFlag(seg, letters) ==
    \E a \in Args(seg) : IsOption(a) /\ Letters[a[1]] \cap letters # {}
NonOptions(seg) == {a \in Args(seg) : ~IsOption(a)}
Bare(seg) == SelectSeq(Tail(seg.words), LAMBDA w : ~IsOption(w))
NameAt(ws, k) == IF k \in DOMAIN ws THEN Name(ws[k]) ELSE NoName
Subcommand(seg) == NameAt(Bare(seg), 1)
FirstOperand(seg) == NameAt(Bare(seg), 2)
AllButFirst(ws) == {ws[k] : k \in DOMAIN ws \ {1}}
Operands(seg) == AllButFirst(Bare(seg))
HitsProtected(seg) == \E t \in NonOptions(seg) : IsProtected(t)

(* Every deletion of a protected path is critical, and so is -rf.            *)
Rm(recursive, forced, protected) ==
    Harms(IF protected \/ (recursive /\ forced) THEN Critical
          ELSE IF recursive \/ forced THEN High ELSE Medium)

(* of=/dev/..., /dev/null excepted.                                         *)
Dd(seg) ==
    IF \E a \in Args(seg) : a # <<>> /\ a[1] = "of=/dev/sda" THEN Harms(Critical) ELSE Does(High)

Service(action) ==
    CASE action = "status" -> Reads
      [] action \in {"restart", "stop", "start", "reload"} -> Harms(Medium)
      [] OTHER -> Puzzles(Medium)

Kill(seg) == IF HasFlag(seg, {"-9", "-KILL", "-SIGKILL"}) THEN Harms(High) ELSE Does(Medium)

PacketFilter(seg) ==
    IF HasFlag(seg, {"-F", "--flush", "flush"}) THEN Harms(Critical)
    ELSE IF HasFlag(seg, {"-L", "--list", "list", "-S", "--list-all"}) THEN Reads
    ELSE Harms(High)

Permissions(seg) ==
    LET recursive == HasShortFlag(seg, {"R"}) \/ HasFlag(seg, {"--recursive"})
        open == \E a \in Args(seg) : a # <<>> /\ Last(a) \in {"777", "666"}
    IN IF HitsProtected(seg) THEN Harms(Critical)
       ELSE IF recursive /\ open THEN Does(Critical) ELSE Does(High)

(* The names that contain restart or reload.                                 *)
Restarting == {"restart", "try-restart", "reload", "reload-or-restart", "daemon-reload"}

WebServer(seg) ==
    IF HasFlag(seg, {"-t", "configtest"}) THEN Does(Safe)
    ELSE IF \/ HasFlag(seg, {"-s"})
            \/ Bare(seg) # <<>> /\ Range(Bare(seg)[1]) \cap Restarting # {}
    THEN Harms(Medium) ELSE Puzzles(Medium)

Git(sub) ==
    CASE sub \in {"status", "log", "diff", "show", "branch", "remote", "rev-parse"} -> Reads
      [] sub \in {"pull", "fetch", "checkout", "switch"} -> Does(Medium)
      [] sub \in {"reset", "clean"} -> Harms(High)
      [] sub = "push" -> Does(High)
      [] OTHER -> Verdict(Low, FALSE, FALSE, FALSE)

(* classify_systemctl; cutting the SSH service is critical whatever the verb.*)
SystemctlVerb(sub) ==
    CASE sub \in {NoName, "status", "show", "cat", "list-units", "list-unit-files",
                  "list-timers", "is-active", "is-enabled", "is-failed",
                  "get-default"} -> Reads
      [] sub = "start" -> Does(Medium)
      [] sub \in {"reload", "restart", "try-restart", "reload-or-restart"} -> Harms(Medium)
      [] sub \in {"stop", "enable", "disable", "mask", "unmask", "preset",
                  "set-default"} -> Harms(High)
      [] sub = "daemon-reload" -> Does(Low)
      [] sub = "kill" -> Does(High)
      [] sub \in {"isolate", "rescue", "emergency", "reboot", "poweroff", "halt"} ->
            Harms(Critical)
      [] OTHER -> Puzzles(Medium)

Systemctl(sub, units) ==
    IF /\ sub \in {"restart", "stop", "disable", "mask"}
       /\ \E u \in units : u # <<>> /\ u[1] \in {"ssh", "sshd"}
    THEN Harms(Critical) ELSE SystemctlVerb(sub)

(* classify_package_manager; its arms for pacman's options are never taken,  *)
(* because a subcommand is not an option.                                    *)
PackageManager(program, sub) ==
    CASE sub \in {"list", "search", "show", "info", "policy", "list-updates",
                  "check-update"} -> Reads
      [] sub = "update" /\ program \in {"apt", "apt-get"} -> Does(Low)
      [] sub \in {"install", "add", "upgrade", "dist-upgrade", "full-upgrade"}
         \/ (sub = "update" /\ program \notin {"apt", "apt-get"}) -> Harms(High)
      [] sub \in {"remove", "purge", "erase", "del"} -> Harms(Critical)
      [] sub \in {"autoremove", "autoclean", "clean"} -> Does(Medium)
      [] OTHER -> Puzzles(High)

Ufw(sub) ==
    CASE sub \in {"status", "show", "version"} -> Reads
      [] sub \in {"disable", "reset"} -> Harms(Critical)
      [] sub \in {"enable", "allow", "deny", "reject", "delete", "limit", "default"} -> Harms(High)
      [] OTHER -> Puzzles(High)

Docker(sub, op) ==
    CASE sub \in {"ps", "images", "logs", "inspect", "stats", "version", "info", "top",
                  "port", "diff", "history", "events"} -> Reads
      [] sub = "start" -> Does(Low)
      [] sub \in {"restart", "stop", "pause", "unpause", "kill"} -> Harms(Medium)
      [] sub \in {"rm", "rmi"} -> Harms(High)
      [] sub \in {"prune", "system"} -> Harms(Critical)
      [] sub \in {"exec", "run"} -> Verdict(High, TRUE, FALSE, TRUE)
      [] sub = "volume" -> IF op \in {"ls", "inspect"} THEN Reads ELSE Does(Critical)
      [] sub = "compose" ->
            CASE op \in {"ps", "logs", "config"} -> Reads
              [] op = "down" -> Does(High)
              [] OTHER -> Verdict(Medium, FALSE, FALSE, FALSE)
      [] OTHER -> Puzzles(Medium)

READ_ONLY ==
    {"cat", "head", "tail", "less", "more", "ls", "stat", "file", "du", "df", "free",
     "uptime", "uname", "hostname", "hostnamectl", "id", "whoami", "who", "w", "last",
     "lastlog", "ps", "pgrep", "top", "htop", "vmstat", "iostat", "mpstat", "pidstat",
     "lsof", "ss", "netstat", "arp", "dig", "nslookup", "host", "ping", "traceroute",
     "mtr", "getent", "lscpu", "lsblk", "lsmod", "lspci", "lsusb", "dmesg",
     "journalctl", "date", "wc", "grep", "egrep", "fgrep", "awk", "cut", "sort",
     "uniq", "tr", "tee", "xargs", "echo", "printf", "basename", "dirname",
     "readlink", "realpath", "sha256sum", "md5sum", "nproc", "findmnt", "blkid",
     "mount", "sysctl", "ip", "true", "false", "test", "sleep", "env", "printenv",
     "which", "type"}

(* Programs that are one tier whatever their arguments.                      *)
DestroysOutright == {"shred", "wipefs", "mkfs", "mkfs.ext4", "reboot", "shutdown",
                     "poweroff", "halt", "init"}
ChangesAccess == {"sshd", "ssh-keygen", "useradd", "usermod", "groupadd", "groupmod",
                  "passwd", "chpasswd", "adduser"}
RemovesAccess == {"userdel", "groupdel", "deluser", "visudo"}

Journal(seg) ==
    IF \E a \in Args(seg) : a # <<>> /\ a[1] = "--vacuum-time" THEN Harms(High) ELSE Reads

Sed(seg) ==
    IF HasShortFlag(seg, {"i"}) \/ HasFlag(seg, {"--in-place"}) THEN Harms(High) ELSE Reads

Files(program, seg) ==
    CASE program = "truncate" -> Does(Medium)
      [] program = "tee" -> IF Args(seg) = {} THEN Reads ELSE Does(Medium)
      [] OTHER -> Does(IF HitsProtected(seg) THEN High ELSE Low)

(* The arms of classify_segment.                                             *)
ByProgram(program, seg) ==
    CASE program = "rm" ->
            Rm(HasShortFlag(seg, {"r", "R"}) \/ HasFlag(seg, {"--recursive"}),
               HasShortFlag(seg, {"f"}) \/ HasFlag(seg, {"--force"}), HitsProtected(seg))
      [] program \in DestroysOutright \cup RemovesAccess -> Harms(Critical)
      [] program = "dd" -> Dd(seg)
      [] program = "systemctl" -> Systemctl(Subcommand(seg), Operands(seg))
      [] program = "service" -> Service(FirstOperand(seg))
      [] program = "journalctl" -> Journal(seg)
      [] program \in {"kill", "pkill", "killall"} -> Kill(seg)
      [] program \in {"apt", "apt-get", "dnf", "yum", "zypper", "apk", "pacman"} ->
            PackageManager(program, Subcommand(seg))
      [] program = "ufw" -> Ufw(Subcommand(seg))
      [] program \in {"iptables", "ip6tables", "nft", "firewall-cmd"} -> PacketFilter(seg)
      [] program \in ChangesAccess -> Harms(High)
      [] program \in {"chmod", "chown", "chgrp", "setfacl"} -> Permissions(seg)
      [] program \in {"docker", "podman"} -> Docker(Subcommand(seg), FirstOperand(seg))
      [] program = "sed" -> Sed(seg)
      [] program \in {"truncate", "tee", "mv", "cp", "ln", "mkdir", "touch"} -> Files(program, seg)
      [] program \in {"eval", "source", "."} -> Verdict(High, TRUE, FALSE, TRUE)
      [] program \in {"crontab", "at"} -> Does(High)
      [] program \in {"nginx", "apache2ctl", "apachectl", "httpd"} -> WebServer(seg)
      [] program = "git" -> Git(Subcommand(seg))
      [] program \in READ_ONLY \ {"journalctl", "tee"} -> Reads
      [] OTHER -> Verdict(Medium, TRUE, FALSE, TRUE)

Program(seg) == Base(seg.words[1])

(* classify_segment: a segment that is nothing but wrappers says nothing;    *)
(* elevated privileges are mentioned.                                        *)
ClassifySegment(seg) ==
    IF seg.words = <<>> THEN Reads
    ELSE [ByProgram(Program(seg), seg) EXCEPT !.reasons = @ \/ seg.elevated]

-----------------------------------------------------------------------------
Downloaders == {"curl", "wget", "fetch"}
Shells == {"sh", "bash", "zsh", "dash", "ksh", "python", "python3", "perl", "ruby"}

PipesDownloadIntoShell(segs) ==
    \E k \in 1..(Len(segs) - 1) :
        /\ segs[k + 1].readsPipe
        /\ segs[k].words # <<>> /\ Program(segs[k]) \in Downloaders
        /\ segs[k + 1].words # <<>> /\ Program(segs[k + 1]) \in Shells

(* The loop over write_redirect_targets.                                     *)
ClassifyTarget(path, protected) ==
    IF path = <<"dev", "null">> THEN Reads
    ELSE IF Len(path) > 1 /\ path[1] = "dev" THEN Harms(Critical)
    ELSE IF protected THEN Does(High) ELSE Reads

Worst(verdicts) == Max({Safe} \cup {v.tier : v \in Range(verdicts)})

(* classify: everything that was found, each part raising the tier; with     *)
(* nothing to say, it says that the command reads.                           *)
Summarize(verdicts, piped) ==
    [tier |-> Worst(verdicts), piped |-> piped,
     readsOnly |-> ~\E v \in Range(verdicts) : v.reasons,
     impact |-> \E v \in Range(verdicts) : v.impact,
     unknown |-> \E v \in Range(verdicts) : v.unknown]

Assess(p, piped) ==
    Summarize(
        (IF p.opaque THEN <<Verdict(Medium, TRUE, FALSE, TRUE)>> ELSE <<>>)
        \o (IF piped THEN <<Harms(Critical)>> ELSE <<>>)
        \o [k \in DOMAIN p.segments |-> ClassifySegment(p.segments[k])]
        \o [k \in DOMAIN p.targets |->
               ClassifyTarget(PathOf(p.targets[k]), IsProtected(p.targets[k]))],
        piped)

AssessParsed(p) == Assess(p, PipesDownloadIntoShell(p.segments))

(* trim: what stands between the first and the last piece that is no blank.  *)
Trim(l) ==
    LET kept == {k \in DOMAIN l : l[k] # Blank}
    IN IF kept = {} THEN <<>> ELSE SubSeq(l, Min(kept), Max(kept))

(* The reason given for an empty command is that it is empty.                *)
EmptyCommand ==
    [tier |-> Safe, piped |-> FALSE, readsOnly |-> FALSE, impact |-> FALSE, unknown |-> FALSE]

Classify(l) == IF Trim(l) = <<>> THEN EmptyCommand ELSE AssessParsed(Parse(Trim(l)))

-----------------------------------------------------------------------------
ClassifierInit == line = <<>> /\ built = NoCmd

(* The operator types...                                                     *)
Type(piece) ==
    /\ Len(line) < MaxLine /\ Range(line) \subseteq Alphabet /\ built = NoCmd
    /\ line' = Append(line, piece)
    /\ UNCHANGED built

(* ... or enters a whole command at once (assess_risk in both cases), ...    *)
Enter(command) ==
    /\ line = <<>>
    /\ line' = Joined(command)
    /\ UNCHANGED built

(* ... or the program assembles one.                                         *)
Build(cmd) ==
    /\ line = <<>>
    /\ line' = Render(cmd)
    /\ built' = cmd

ClassifierNext ==
    \/ \E piece \in Alphabet : Type(piece)
    \/ line = <<>> /\ \E command \in Commands : Enter(command)
    \/ line = <<>> /\ \E cmd \in BuiltCmds : Build(cmd)

ClassifierTypeOK ==
    /\ line \in Seq(STRING)
    /\ built.program \in Seq(STRING) /\ built.args \in Seq(Seq(STRING)) /\ built.sudo \in BOOLEAN

-----------------------------------------------------------------------------
(* How a shell quotes, piece by piece: the context in which each one is      *)
(* read, as an automaton independent of parse.                               *)
NextContext(ctx, piece, following) ==
    CASE ctx = "single" -> IF piece = SingleQuote THEN "plain" ELSE ctx
      [] ctx = "double" -> IF piece = DoubleQuote THEN "plain"
                           ELSE IF piece = Backslash THEN "double escape" ELSE ctx
      [] ctx = "double escape" -> "double"
      [] ctx = "escape" -> "plain"
      [] ctx = "back" -> IF piece = Backtick THEN "plain" ELSE ctx
      [] ctx = "plain" ->
            CASE piece = SingleQuote -> "single"
              [] piece = DoubleQuote -> "double"
              [] piece = Backslash -> "escape"
              [] piece = Backtick -> "back"
              [] piece = "$" /\ following = "(" -> "substitution"
              [] OTHER -> "plain"
      [] OTHER -> ctx

Contexts(l) ==
    LET f[k \in 1..(Len(l) + 1)] ==
          IF k = 1 THEN "plain"
          ELSE NextContext(f[k - 1], l[k - 1], IF k <= Len(l) THEN l[k] ELSE NoName)
    IN f

(* Where a shell ends a command: a separator in the plain context that is    *)
(* not part of a redirection operator (>| and >&) and does not stand where a *)
(* redirection still waits for its target (parse keeps it pending through    *)
(* separators, blanks and a <).                                              *)
Cuts(l) ==
    {k \in DOMAIN l :
        /\ l[k] \in Separators /\ Contexts(l)[k] = "plain"
        /\ ~\E j \in 1..(k - 1) : l[j] = ">" /\ \A m \in (j + 1)..(k - 1) :
                                     l[m] \in Separators \cup {Blank, "<"}}

(* The worst command of a line decides: whatever stands on either side of a  *)
(* separator is rated no lower within the line, once that is trimmed, than   *)
(* parse and the tables rate it alone, and the line is rated higher than     *)
(* both sides only when it pipes a download into a shell, which is critical  *)
(* (risk.rs classify and parse).                                             *)
WorstSegmentWins ==
    \E l \in {Trim(line)}, a \in {Classify(line)} :
        \A k \in Cuts(l) :
            \/ a.tier = Max({AssessParsed(Parse(side)).tier :
                               side \in {SubSeq(l, 1, k - 1), SubSeq(l, k + 1, Len(l))}})
            \/ a.tier = Critical /\ a.piped

(* A command assembled by Cmd is read back as one simple command with the    *)
(* program and exactly the arguments it was given, whatever they contain;    *)
(* nothing in it is substituted or redirected (shell.rs quote and render     *)
(* against risk.rs parse).                                                   *)
RenderedIsOneCommand ==
    built # NoCmd =>
        LET p == Parse(line)
        IN /\ p.segments = <<[words |-> <<built.program>> \o built.args,
                              elevated |-> built.sudo, readsPipe |-> FALSE]>>
           /\ ~p.opaque
           /\ p.targets = <<>>

(* What cannot be read is not called harmless: an unknown construct or an    *)
(* expected impact comes with at least Medium, and a substitution of the     *)
(* trimmed line outside single quotes and unescaped is one (a backtick       *)
(* inside double quotes excepted: the code does not see it) (risk.rs         *)
(* classify, classify_segment).                                              *)
UnreadableIsNotSafe ==
    \E l \in {Trim(line)}, a \in {Classify(line)} : \E ctx \in {Contexts(l)} :
        /\ a.unknown \/ a.impact => a.tier >= Medium
        /\ \A k \in DOMAIN l :
              \/ l[k] = "$" /\ k < Len(l) /\ l[k + 1] = "(" /\ ctx[k] \in {"plain", "double"}
              \/ l[k] = Backtick /\ ctx[k] = "plain"
              => a.unknown
=============================================================================
