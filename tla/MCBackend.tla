------------------------------ MODULE MCBackend ------------------------------
(* A small instance of every part.                                            *)
EXTENDS Backend, TLC

(* Metrics: two rollups of two and four ticks, kept for two and three, and   *)
(* windows of one, two and more ticks.                                       *)
MCRollups == <<"1m", "1h">>
MCBucketMs == ("1m" :> 2) @@ ("1h" :> 4)
MCRetentionMs == ("raw" :> 1) @@ ("1m" :> 2) @@ ("1h" :> 3)
MCWindowMs == ("raw" :> 1) @@ ("1m" :> 2) @@ ("1h" :> 3)
MCBatches == {"cpu" :> 1, ("cpu" :> 4) @@ ("mem" :> 1)}
MCBudget == [p \in Parts |-> CASE p = "charts" -> 5 [] p = "health" -> 2 [] OTHER -> 0]
MCLive == [p \in Parts |-> IF p = "charts" THEN {"s1"} ELSE Servers]

(* Snapshots: a service and a port, present, changed or absent, named once   *)
(* or twice; a kernel known or not.                                          *)
Lists(service, port) ==
    [k \in Kinds |-> CASE k = "service" -> service [] k = "port" -> port [] OTHER -> <<>>]
MCDocuments ==
    {[lists |-> Lists(s, p), kernel |-> k] :
        s \in {<<>>, <<<<"nginx", "active">>>>, <<<<"nginx", "failed">>, <<"cron", "active">>>>},
        p \in {<<>>, <<<<"22", "any">>, <<"22", "local">>>>},
        k \in {"", "6.1"}}

(* Messages: every way an envelope can be wrong, and a call of each kind.    *)
Envelope == [json |-> TRUE, object |-> TRUE, version |-> TRUE, method |-> "tools/call",
             id |-> "scalar", params |-> "object", tool |-> "", args |-> <<>>]
Call(tool, args) == [Envelope EXCEPT !.tool = tool, !.args = args]
String(v) == [type |-> "string", v |-> v]
OnServer(v) == "server_id" :> String(v)
Site == OnServer("s1") @@ ("domain" :> String("example"))
MCMessages ==
    {[Envelope EXCEPT !.json = FALSE], [Envelope EXCEPT !.object = FALSE],
     [Envelope EXCEPT !.version = FALSE], [Envelope EXCEPT !.method = ""],
     [Envelope EXCEPT !.id = "structured"]}
    \cup {[Envelope EXCEPT !.method = m, !.id = i, !.params = p] :
             m \in {"tools/list", "ping", "tools/run"}, i \in {"absent", "scalar"},
             p \in {"absent", "object", "other"}}
    \cup {Call("kyvon_server_health", OnServer(s)) : s \in Servers}
    \cup {Call("kyvon_server_get", OnServer(s)) : s \in {"s1", "nobody"}}
    \cup {Call("kyvon_server_list", <<>>), Call("kyvon_server_list", "tag" :> String("staging")),
          Call("kyvon_server_list", "tag" :> String("")), Call("kyvon_server_get", <<>>),
          Call("kyvon_server_get", OnServer("s1") @@ ("tag" :> String("staging"))),
          Call("kyvon_site_logs", Site @@ ("lines" :> [type |-> "integer", v |-> 1000])),
          Call("kyvon_site_logs", Site @@ ("lines" :> [type |-> "integer", v |-> 1001])),
          Call("kyvon_changes_list", OnServer("s1")),
          Call("kyvon_reload_nginx", OnServer("s1")), Call("kyvon_reload_nginx", <<>>),
          Call("kyvon_drop_database", OnServer("s1"))}
MCTagsOf == ("s1" :> {"staging"}) @@ ("s2" :> {"production"})

(* Command lines: pieces to type, commands to enter, commands to assemble.   *)
MCComponents ==
    ("/etc" :> <<"etc">>) @@ ("/etc/ssh" :> <<"etc", "ssh">>) @@ ("/dev/sda" :> <<"dev", "sda">>)
    @@ ("/dev/null" :> <<"dev", "null">>) @@ ("/home/ops" :> <<"home", "ops">>)
    @@ ("/usr" :> <<"usr">>) @@ ("/bin/rm" :> <<"bin", "rm">>) @@ ("/bin/sh" :> <<"bin", "sh">>)
MCLetters ==
    ("-rf" :> {"r", "f"}) @@ ("-R" :> {"R"}) @@ ("-f" :> {"f"}) @@ ("-i" :> {"i"}) @@ ("-9" :> {"9"})
    @@ ("-F" :> {"F"}) @@ ("-L" :> {"L"}) @@ ("-t" :> {"t"}) @@ ("-s" :> {"s"}) @@ ("-u" :> {"u"})
    @@ ("-n" :> {"n"}) @@ ("--vacuum-time" :> {}) @@ ("--recursive" :> {})
MCAlphabet ==
    {"rm", "curl", "sh", "/etc", Blank, SingleQuote, DoubleQuote, Backslash, Backtick,
     "$", "(", ")", "|", "&", ";", ">", "<"}

Programs ==
    {"rm", "/bin/rm", "shred", "mkfs.ext4", "reboot", "dd", "systemctl", "service", "journalctl",
     "kill", "pkill", "apt", "dnf", "pacman", "ufw", "iptables", "sshd", "useradd", "userdel",
     "visudo", "chmod", "docker", "sed", "truncate", "tee", "mv", "eval", "crontab", "nginx",
     "git", "cat", "xargs", "make"}
Arguments ==
    DOMAIN MCLetters \cup DOMAIN MCComponents
    \cup {"status", "restart", "stop", "start", "enable", "daemon-reload", "kill", "isolate",
          "frobnicate", "list", "update", "install", "remove", "clean", "disable", "allow",
          "777", "of=/dev/sda", "volume", "compose", "exec", "prune", "reset", "pull", "push", "*"}
Operands2 == {"sshd", "nginx", "ls", "down", "status", "/etc/ssh", "777"}
MCAssignments == {"A=1", "of=/dev/sda"}
MCIdentifiers ==
    (Programs \cup Arguments \cup Operands2 \cup {"curl", "sh", "ops", "x", "a"})
    \ (DOMAIN MCComponents \cup DOMAIN MCLetters \cup MCAssignments \cup {"mkfs.ext4", "daemon-reload", "*"})
MCCommands ==
    {<<<<p>>>> : p \in Programs}
    \cup {<<<<p>>, <<a>>>> : p \in Programs, a \in Arguments}
    \cup {<<<<p>>, <<a>>, <<b>>>> : p \in Programs, a \in Arguments, b \in Operands2}
    \cup {w \o <<<<"rm">>, <<"-rf">>, <<"/usr">>>> :
             w \in {<<<<"sudo">>, <<"-u">>, <<"ops">>>>, <<<<"nohup">>, <<"-n">>>>,
                    <<<<"env">>, <<"A=1">>, <<"-i">>>>, <<<<"A=1">>, <<"doas">>>>,
                    <<<<"rm", "A=1">>>>, <<<<"*", "A=1">>>>, <<<<Blank>>>>}}
    \cup {<<<<Blank>>>>, <<<<"rm">>, <<Blank>>>>, <<<<Blank>>, <<"rm">>, <<";">>, <<"cat">>, <<Backslash, Blank>>>>}
    \cup {<<<<"curl">>, <<a>>, <<"|">>, <<"sudo">>, <<s>>>> : a \in {"x", ">"}, s \in {"sh", "/bin/sh", "cat"}}
    \cup {<<w>> : w \in [1..6 -> {"rm", ";", SingleQuote, DoubleQuote, Backslash}]}

Texts == UNION {[1..n -> {"a", "*", SingleQuote, DoubleQuote, Backslash, Blank, ";", "$", "("}] : n \in 0..3}
MCBuiltCmds ==
    [program : {<<"cat">>, <<"/bin/rm">>}, sudo : BOOLEAN,
     args : {<<>>} \cup {<<a>> : a \in Texts} \cup {<<a, <<"-n">>>> : a \in Texts}]
=============================================================================
