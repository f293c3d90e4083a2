------------------------------ MODULE MCConfig ------------------------------
(* Memory sticks for the run of Config.  The tokens are strings.           *)
EXTENDS Config

Boot == <<"ms0:", "/", "boot">>
Ini == Boot \o <<"/", "ini">>
AllTokens ==
    {"ms0:", "disc0:", "umd", "/", ".", "boot", "ini", "s", "t", "u", "v", "w", "d", "x", "e", "f",
     "y", "n", "m", "p", "?", "@", ".ISO", " ", "=", ",", ";", "CR", "LF", "Eof", "0", "1", "2",
     "a", "ff", "10150", "N", "M", "S", "DISP", "FILE", "DELAY"} \cup DOMAIN Parameters
AllDrives == {"ms0:", "disc0:"}
Values == (<<"0">> :> 0) @@ (<<"1">> :> 1) @@ (<<"2">> :> 2) @@ (<<"a">> :> 10)
          @@ (<<"ff">> :> 255) @@ (<<"10150">> :> 65872)

(* A line, and the lines of the game that most of the sticks have.         *)
Words(params) ==
    params[1] \o (IF Len(params) > 1 THEN <<",">> \o params[2] ELSE <<>>)
    \o (IF Len(params) > 2 THEN <<",">> \o params[3] ELSE <<>>)
    \o (IF Len(params) > 3 THEN <<",">> \o params[4] ELSE <<>>)
Ln(name, params) == <<name, "=">> \o Words(params) \o <<"CR", "LF">>
All == Ln("NID", <<<<"ff">>, <<"M">>>>)
Game == Ln("TARGET_PATH", <<<<"x", ".ISO", "@", "/", "e">>>>)
Disc == Ln("ASSIGN_PATH", <<<<"disc0:", "/">>, <<" ", "x", ".ISO", "@">>>>)
Block == Ln("ASSIGN_PATH", <<<<"umd">>, <<"x", ".ISO">>>>)
Stick == Ln("ASSIGN_PATH", <<<<"ms0:", "/", "s">>, <<"ms0:", "/", "t">>>>)
Wide == Ln("ASSIGN_PATH", <<<<"disc0:">>, <<".", "/", "w">>>>)
Blank == Ln("ASSIGN_PATH", <<<<>>, <<"d">>>>)
To(p) == Ln("CONFIG_PATH", <<p>>)

One(text) == (Ini :> text)
Two(text, name, next) == (Ini :> text) @@ (Boot \o <<"/", name>> :> next)

Sticks == {
    \* assignments: in any order, one too many, only half of it fitting, none to look for
    One(All \o Game \o Disc \o Block),
    One(Ln("UMD_EMU", <<<<"0">>>>) \o Wide \o Disc \o All \o Game),
    One(All \o Disc \o Block \o Stick),
    One(Disc \o Stick \o Stick \o All),
    One(All \o Blank \o Disc),
    One(<<";">> \o Disc \o Ln("ASSIGN_PATH", <<<<"umd">>>>) \o Block \o All),
    \* modes: the last line stands, a mode there is none of, one for all after one for one
    One(All \o Ln("NID", <<<<"1">>, <<"N">>>>) \o Ln("NID", <<<<"2">>>>)),
    One(Ln("NID", <<<<"1">>, <<"S">>>>) \o Ln("NID", <<<<"1">>, <<"x">>>>)
        \o Ln("SYSCALL_VECTOR", <<<<"a">>>>) \o Ln("SYSCALL_VECTOR", <<<<"2">>, <<"2">>>>)),
    One(Ln("NID", <<<<"1">>, <<"S">>>>) \o Ln("SYSCALL_VECTOR", <<<<"a">>, <<"1">>>>) \o All),
    One(Ln("SYSCALL_VECTOR", <<<<"a">>, <<"2">>>>) \o Ln("NID", <<<<"2">>, <<"S">>>>)),
    \* other sections
    One(Ln("TITLE", <<<<"t">>>>) \o Ln("DEVKIT_VER", <<<<"10150">>>>) \o Ln("KERNEL_VER", <<<<"a">>>>)
        \o Ln("IMPORT_VER", <<<<"1">>, <<"2">>>>) \o Ln("LOG_DEVICE", <<<<"DISP">>>>)
        \o Ln("LOG_DEVICE", <<<<"FILE">>>>) \o Ln("LOG_DEVICE", <<<<"DELAY">>>>)
        \o Ln("WAIT_RUN", <<<<"1">>>>) \o Ln("LOG_DEVICE", <<<<"x">>>>)),
    One(Ln("KPATCH", <<<<"1">>, <<"2">>, <<"a">>>>) \o Ln("KPATCH", <<<<"1">>, <<"a">>, <<"0">>, <<"1">>>>)
        \o Ln("KPATCH", <<<<"1">>, <<"a">>, <<"ff">>, <<"2">>>>) \o Ln("KPATCH", <<<<"2">>, <<"a">>, <<"1">>>>)),
    \* ends of lines and files
    One(All \o <<"CR">> \o <<"TARGET_PATH", "=", " ", "e", " ", "f", "CR">> \o <<"Eof", "y">>),
    One(<<"TITLE", "=", "t", "LF", "NID", "=", "ff">>),
    One(All \o <<"TITLE", "=", "t">>),
    One(<<>>),
    \* chains of files
    Two(All \o To(<<"n">>) \o Game, "n", Ln("NID", <<<<"1">>, <<"N">>>>) \o Disc),
    Two(To(<<"m">>) \o To(<<".", "/", "n">>) \o All, "n", Game \o Stick),
    Two(To(<<"n">>) \o To(<<"m">>) \o All, "n", Game),
    Two(All \o To(<<"n">>), "n", To(<<"ini">>)),
    Two(All \o To(<<"ini">>), "n", <<>>),
    \* a path from the top of the stick, and relative ones before and after it
    One(All \o Game \o Ln("PATCH_PATH", <<<<"/", "p">>>>) \o Disc),
    One(All \o Ln("TARGET_PATH", <<<<"/", "e">>>>)),
    One(All \o Ln("PATCH_PATH", <<<<"/", "p">>>>) \o Ln("TARGET_PATH", <<<<"e">>>>)) }

Opened == {<<"disc0:", "/", "e">>, <<"disc0:">>, <<"umd">>, <<"ms0:", "/", "t", "u", "v">>}
Behind == {<<>>, <<"?">>}
Memory == (1 :> 2) @@ (2 :> 0)
Both == {"serial", "free"}
Numbers == {1, 2}
=============================================================================
