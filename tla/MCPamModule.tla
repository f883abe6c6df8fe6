---------------------------- MODULE MCPamModule ----------------------------
(* PamModule for TLC: two users, of whom one may be the helper's, and lists
   of options that differ in what lib.rs looks at.                         *)
EXTENDS PamModule

MCUsers == {<<"alice">>, <<"bob">>}

File == Text("file", <<"/", "%H", "/", "%u">>)
Command == Text("authorized_keys_command", <<"/", "cmd">>)
CommandUser == Text("authorized_keys_command_user", <<"bob">>)

MCConfigurations ==
    {<<>>, <<Command>>, <<CommandUser, Command>>,
     <<File, Flag("strict")>>,
     <<Flag("sshd_shortcut"), File, Flag("strict")>>,
     <<Flag("strict"), File, Command>>,
     <<Flag("strict"), File, Command, CommandUser, Seconds(1)>>,
     <<Flag("strict"), File, Seconds(0)>>}
============================================================================
