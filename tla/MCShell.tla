------------------------------- MODULE MCShell -------------------------------
(* Instance of Shell for TLC: sessions that replay history, that start,    *)
(* stop, continue and kill background children around foreground ones, and *)
(* two with a history command inside a logical line.                       *)
EXTENDS Shell

Cmd(k) == Command(k, 0)
Fg == Simple(Cmd("fg"))
Bg == Simple(Cmd("bg"))
Cd == Simple(Cmd("cd"))
To(k) == Simple(Command(k, 1))       \* kill 1, stop 1, cont 1
BgBg == Logical(";", Cmd("bg"), Cmd("bg"))
CdFg == Logical("||", Cmd("cd"), Cmd("fg"))

Jobs == {<<Bg, To(a), To(b), Fg>> : a, b \in {"stop", "cont", "kill"}}

MCSessions == Jobs \union
    {<<Bg, Bg, Simple(Cmd("ps")), Simple(Cmd("exit"))>>,
     <<BgBg, To("kill"), Simple(Cmd("exit"))>>,
     <<BgBg, Bg>>,
     <<Fg, Simple(Nothing), Simple(Cmd("prefix")), Fg>>,
     <<Logical("&&", Cmd("fg"), Cmd("bg")), Simple(Command("prefix", 1)), Simple(Cmd("history"))>>,
     <<CdFg, Simple(Command("index", 2)), Simple(Command("index", 1))>>,
     <<CdFg, Simple(Command("prefix", 3)), Simple(Command("prefix", 2))>>,
     <<Logical("&&", Cmd("cd"), Command("index", 0)), Simple(Command("index", 0)), Cd>>,
     <<Logical(";", Cmd("history"), Cmd("history"))>>}

MCGarbage == {Simple(Nothing), Cd, CdFg}

MCHistories == {<<>>, <<Cd, Bg>>}

=============================================================================
