---------------------------- MODULE MCIntegrate ----------------------------
(* GoldfishIntegrate with a header, the board, and a device in the board's   *)
(* directory and one in another; the board's symbol is contained in theirs.  *)
(* The trees are those of the workflow (2.9 to 8.2), one of 5.2, whose board *)
(* configuration is not where the script looks, a 10.0, one without VERSION  *)
(* and one without build files.                                              *)
EXTENDS GoldfishIntegrate

Line(file, dir, sym, board) ==
  [file |-> file, dir |-> dir, sym |-> sym, board |-> board]

MCManifest ==
  <<Line(<<"compat", ".h">>, "arm", NoSymbol, FALSE),
    Line(<<"goldfish", ".c">>, "arm", <<"ANDROID_", "GOLDFISH">>, TRUE),
    Line(<<"goldfish", "_bus", ".c">>, "arm",
         <<"ANDROID_", "GOLDFISH", "_BUS">>, FALSE),
    Line(<<"goldfish", "_pic", ".c">>, "intc",
         <<"ANDROID_", "GOLDFISH", "_PIC">>, FALSE)>>

MCDefaultBoard == <<"GOLDFISH">>
MCExtraSelects == {<<"SMC91C111">>}

Tree(build, kc, dc, version) ==
  [build |-> build, kconfig |-> kc, defconfig |-> dc, version |-> version]

MCTrees ==
  {Tree("makefile", FALSE, TRUE, <<2, 9>>), Tree("makefile", FALSE, TRUE, <<3, 1>>),
   Tree("makefile", TRUE, TRUE, <<4, 2>>), Tree("makefile", TRUE, TRUE, <<5, 1>>),
   Tree("meson", TRUE, FALSE, <<5, 2>>), Tree("meson", TRUE, TRUE, <<8, 2>>),
   Tree("meson", TRUE, TRUE, <<10, 0>>), Tree("meson", TRUE, TRUE, NoVersion),
   Tree("none", FALSE, FALSE, <<8, 2>>)}

MCForced == <<9, 1>>
MCNoVersion == <<0, 0>>
=============================================================================
