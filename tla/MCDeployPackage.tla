--------------------------- MODULE MCDeployPackage ---------------------------
(* An instance of DeployPackage: the commands with flags that go together or not, and the *)
(* deployment of some directories.                                                        *)
EXTENDS DeployPackage

MCRemotes == [lcp |-> <<<<"lfr">>, <<"cloud">>>>, dev |-> <<<<"dev">>, <<"net">>>>,
              a |-> <<<<"two">>, <<"net">>>>, b |-> <<<<"two">>, <<"net">>>>]

Project(id, services_) == [id |-> id, services |-> services_]
MCClouds == {<<Project(<<"blog">>, <<>>), Project(<<"shop">>, <<<<"web">>, <<"api">>>>),
               Project(<<"web">>, <<<<"api">>>>)>>,
             <<Project(<<"shop", "dev">>, <<<<"web">>>>)>>}

Instance(id, service, running) ==
    [id |-> id, project |-> <<"shop">>, service |-> <<service>>, running |-> running]
MCInstances == {Instance(<<"a", "b">>, "web", TRUE), Instance(<<"a", "c">>, "web", FALSE),
                Instance(<<"d">>, "api", TRUE)}

Name(name)  == [num |-> NotANumber, name |-> name]
Number(num) == [num |-> num, name |-> NoName]
MCTyped == {Blank} \cup {Name(<<n>>) : n \in {"web", "api", "shop", "blog", "new", "a"}}
                   \cup {Name(<<"shop", "dev">>)}
                   \cup {Number(n) : n \in {0, 1, 2, 9}}

Pkg(has, id, project, image) == [has |-> has, id |-> id, project |-> project, image |-> image]
Nothing == Pkg("nothing", <<>>, <<>>, "")
In(name, pkg) == [name |-> name, hidden |-> FALSE, isDir |-> TRUE, noservice |-> FALSE, pkg |-> pkg]
Dir(base, files, above) == [base |-> In("top", base), files |-> files, above |-> above]
Empty_ == Dir(Nothing, <<>>, "none")

Web    == In("web", Pkg("LCP.json", <<"web">>, <<>>, ""))
Api    == In("api", Pkg("LCP.json", <<"api">>, <<>>, "node"))
NoId   == In("web", Pkg("LCP.json", <<>>, <<>>, ""))
Docker == In("WEB", Pkg("Dockerfile", <<>>, <<>>, ""))
Odd    == In("my web", Pkg("LCP.json", <<>>, <<"shop">>, "java"))
Java   == In("java", Pkg("LCP.json", <<"java">>, <<>>, "java"))
Upper  == In("up", Pkg("LCP.json", <<"WEB">>, <<>>, ""))
Shop   == In("shop", Pkg("LCP.json", <<"s">>, <<"shop">>, "java"))
Twin   == In("twin", Pkg("LCP.json", <<"web">>, <<>>, ""))
Broken == In("broken", Pkg("broken", <<>>, <<>>, ""))

MCDirs == {Empty_, Dir(Pkg("LCP.json", <<"top">>, <<"shop">>, ""), <<Web>>, "broken"),
           Dir(Nothing, <<>>, "broken"), Dir(Pkg("Dockerfile", <<>>, <<>>, ""), <<Web>>, "fine"),
           Dir(Nothing, <<Web, Api>>, "fine"), Dir(Nothing, <<Web, Api, Twin>>, "none"),
           Dir(Nothing, <<In("x", Pkg("LCP.json", <<"web">>, <<>>, "")), NoId>>, "none"),
           Dir(Nothing, <<NoId, Docker>>, "none"), Dir(Nothing, <<Api, Web, Java>>, "none"),
           Dir(Nothing, <<Web, Broken>>, "none"), Dir(Nothing, <<Web, Api, Java>>, "none"),
           Dir(Nothing, <<Web, Shop>>, "none"), Dir(Nothing, <<Web, Upper>>, "none"),
           Dir(Nothing, <<[Broken EXCEPT !.name = "skip", !.noservice = TRUE],
                          [Broken EXCEPT !.name = ".git", !.hidden = TRUE],
                          [Broken EXCEPT !.name = "x", !.isDir = FALSE], Odd, Shop>>, "none"),
           Dir(Pkg("broken", <<>>, <<>>, ""), <<>>, "none"), Dir(Nothing, <<Odd>>, "none")}

NoParams == [repo |-> FALSE, metadata |-> "none", copyPackage |-> "none", forbidden |-> FALSE,
             image |-> FALSE, region |-> "", follow |-> FALSE, experimental |-> FALSE,
             hack |-> FALSE]
NoIgnore == [here |-> {}, above |-> {}]
Run(cmd, project, service, flag, tty) ==
    [cmd |-> cmd, project |-> project, env |-> "", service |-> service, instance |-> NoName,
     remote |-> flag, url |-> <<>>, tty |-> tty, dir |-> Empty_, params |-> NoParams,
     files |-> {}, gitignore |-> NoIgnore,
     lower |-> [top |-> "top", web |-> "web", WEB |-> "web"],
     meant |-> [project |-> project, service |-> service,
                remote |-> CASE flag = Current -> "" [] flag = "" -> "lcp" [] OTHER -> flag]]

CommandNames == DOMAIN Commands

FlagStarts ==
    {Run(c, p, s, r, tty) : c \in CommandNames, p \in {NoName, <<"shop">>, <<"shop", "dev">>},
                            s \in {NoName, <<"web">>}, r \in {Current, "", "a", "none"},
                            tty \in BOOLEAN}
    \cup {[Run(c, p, NoName, Current, TRUE) EXCEPT !.env = "dev",
            !.meant.project = <<"shop", "dev">>] :
            c \in {"open", "log"}, p \in {NoName, <<"shop">>, <<"shop", "dev">>}}
    \cup {[Run(c, p, NoName, Current, tty) EXCEPT !.instance = i] :
            c \in {"exec", "log"}, p \in {NoName, <<"shop">>},
            i \in {anyInstance, <<"a">>, <<"a", "b">>, <<"z">>}, tty \in BOOLEAN}

\* Named in a host, with the address of a remote or without it.
UrlStarts ==
    {[Run(c, NoName, NoName, flag, FALSE) EXCEPT !.url = <<service \o project>> \o MCRemotes[r],
            !.meant = [project |-> project, service |-> service, remote |-> r]] :
        c \in CommandNames, project \in {<<"shop">>, <<"shop", "dev">>},
        service \in {NoName, <<"web">>}, r \in DOMAIN MCRemotes, flag \in {Current, "lcp"}}
    \cup {[Run(c, NoName, NoName, flag, FALSE) EXCEPT !.url = <<<<"web", "shop">>>>,
            !.meant = [project |-> <<"shop">>, service |-> <<"web">>,
                       remote |-> IF flag = Current THEN "dev" ELSE flag]] :
        c \in CommandNames, flag \in {Current, "lcp"}}
    \cup {[Run(c, project, NoName, Current, TRUE) EXCEPT !.url = MCRemotes[r],
            !.meant = [project |-> NoName, service |-> NoName, remote |-> r]] :
        c \in CommandNames, project \in {NoName, <<"shop">>}, r \in DOMAIN MCRemotes}

WithParams ==
    {[NoParams EXCEPT !.image = image, !.follow = TRUE, !.region = region] :
        image \in BOOLEAN, region \in {"", "r1", "r2"}}
    \cup {[NoParams EXCEPT !.repo = repo, !.metadata = m, !.copyPackage = c, !.forbidden = f,
                           !.follow = TRUE] :
        repo \in BOOLEAN, m \in {"none", "valid", "broken"}, c \in {"none", "valid", "missing"},
        f \in BOOLEAN}
    \cup {[NoParams EXCEPT !.repo = TRUE, !.image = TRUE]}

DeployStarts ==
    {[Run("deploy", p, s, Current, tty) EXCEPT !.dir = dir, !.params.image = image] :
        p \in {NoName, <<"shop">>, <<"new">>}, s \in {NoName, <<"web">>}, tty \in BOOLEAN,
        dir \in MCDirs, image \in BOOLEAN}
    \cup {[Run("deploy", p, s, Current, FALSE) EXCEPT !.dir = Dir(Nothing, <<Web>>, "none"),
                !.params = params_] :
        p \in {<<"shop">>, <<"new">>}, s \in {NoName, <<"web">>}, params_ \in WithParams}

\* A service of its own, with directories in it, and two services next to what is none.
Packages == {Dir(Pkg("LCP.json", <<"top">>, <<"shop">>, ""), <<Web>>, "none"),
             Dir(Nothing, <<Web, Docker>>, "none")}
MCJunk       == {".DS_Store"}
MCQuoted     == {"top log"}
MCUnreadable == {"link"}
Names_       == {"main.js", "own.log", "top.log", "link", "top log", ".DS_Store"}
MCFiles      == {[in |-> dir, name |-> name] : dir \in {"top", "web", "rest"}, name \in Names_}

PackageStarts ==
    {[Run("deploy", <<"shop">>, NoName, r, tty) EXCEPT !.dir = dir, !.params.image = image,
            !.params.experimental = e, !.params.hack = hack,
            !.files = {f \in MCFiles : f.name # "link" \/ links},
            !.gitignore = [here |-> here, above |-> above]] :
        r \in {Current, "a"}, tty \in BOOLEAN, dir \in Packages, image \in BOOLEAN, e \in BOOLEAN,
        hack \in BOOLEAN, links \in BOOLEAN,
        here \in {{}, {"own.log"}, {"LCP.json"}, {"own.log", "top log", "link"}},
        above \in {{}, {"top.log", "top log"}, {"LCP.json", "top log"}}}

Builds(groups) == [is |-> "builds", groups |-> groups]
Says(is)       == [is |-> is, groups |-> <<>>]
MCAnswers == {<<>>, <<Says("text"), Builds(<<"g1", "g2">>)>>, <<Builds(<<"">>), Says("error")>>,
              <<Says("error"), Builds(<<"g1">>)>>, <<Says("garbled")>>, <<Builds(<<>>)>>,
              <<Says("text")>>}

MCStarts == FlagStarts \cup UrlStarts \cup DeployStarts \cup PackageStarts

MCRandomIDs == {<<"bold7">>, <<"shy2">>}
MCNames == {<<"mine">>}
=============================================================================
