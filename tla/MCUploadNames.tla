--------------------------- MODULE MCUploadNames ---------------------------
(* Paths for checking UploadNames with TLC.                                *)
EXTENDS UploadNames

(* mp4dash writes a manifest and one directory per stream.                 *)
MCTree == <<<<"stream.mpd">>, <<"video", "init.mp4">>, <<"audio", "init.mp4">>>>

(* "", "/tmp", "data": unset, an absolute and a relative path.            *)
MCStores == {<<"">>, <<"", "tmp">>, <<"data">>}

(* "/tmp/".                                                                *)
MCStoresSlash == {<<"", "tmp", "">>}

(* "", "out/a", "out/a/", "out/../b", "out".                               *)
MCOutputs ==
  {<<"">>, <<"out", "a">>, <<"out", "a", "">>, <<"out", "..", "b">>, <<"out">>}
=============================================================================
