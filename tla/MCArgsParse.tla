---------------------------- MODULE MCArgsParse ----------------------------
(* ArgsParse for TLC: two plain users and two whose names are variables, and
   for each option values on both sides of what its checks tell apart.     *)
EXTENDS ArgsParse

MCUsers == {<<"alice">>, <<"bob">>, <<"%f">>, <<"%h">>}

MCMenu ==
    {Flag(key) : key \in {"debug", "strict", "sshd_shortcut", "garbage"}}
      \cup {Seconds(n) : n \in {0, 1, 300, 301}}
      \cup {[Seconds(100) EXCEPT !.value = <<"%U">>]}
      \cup {Text("file", t) : t \in {<<"/", "keys">>, <<"/", "%u", "%f", "%u">>,
                                     <<"~", "/", "%u">>}}
      \cup {Text("ca_keys_file", t) : t \in {<<"/", "%U", "%H">>, <<"%h">>}}
      \cup {Text("authorized_keys_command", t) :
              t \in {<<"/", "cmd">>, <<"cmd">>, <<"/", "%u">>, <<"~", "bob">>}}
      \cup {Text("authorized_keys_command_user", <<"%u">>),
            Text("default_ssh_auth_sock", <<"/", "%f">>)}
============================================================================
