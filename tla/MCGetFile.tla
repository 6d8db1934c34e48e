------------------------------- MODULE MCGetFile -------------------------------
EXTENDS GetFile, TLC

MCSizeOf == "f1" :> 2 @@ "f2" :> 1
MCRanges == {None, <<1, 1>>}
=============================================================================
