----------------------------- MODULE MCServices -----------------------------
(* An instance of Services: two people, each with a command of this list, run *)
(* at most twice.                                                             *)
EXTENDS Services

Run(op, args, region) == [op |-> op, asks |-> "no", args |-> args, region |-> region]
Ask(op, asks, args)   == [op |-> op, asks |-> asks, args |-> args, region |-> ""]

MCCommands ==
    {Run("domain add", <<1, 2>>, ""), Run("domain rm", <<2, 1>>, ""),
     Ask("domain rm", "arguments", <<1, 2>>), Ask("domain add", "menu", <<2>>),
     Run("env add", <<2, 1>>, ""), Ask("env rm", "menu", <<2, 3>>),
     Ask("env rm", "arguments", <<1>>), Run("env replace", <<>>, ""),
     Run("env replace", <<3, 1>>, ""),
     Run("scale", <<>>, ""), Run("scale", <<0>>, ""), Run("scale", <<2>>, ""),
     Run("restart", <<>>, ""), Run("delete service", <<>>, ""),
     Run("delete project", <<>>, ""), Run("new service", <<>>, ""),
     Run("new project", <<>>, ""), Ask("new project", "menu", <<>>),
     [Ask("new service", "menu", <<>>) EXCEPT !.region = "r2"],
     Run("deploy", <<>>, "r2")}
=============================================================================
