--------------------------- MODULE MCDesktopSessions ---------------------------
EXTENDS DesktopSessions

MCDirsOf == [v \in Values |-> IF v = "local first" THEN <<"local", "share">>
                                                   ELSE <<"share", "local">>]
MCX11Dirs == <<"xsessions">>
=============================================================================
