-------------------------- MODULE MCVideoPipeline --------------------------
(* TLC instance of VideoPipeline: a small display in its two orientations, whose  *)
(* encoded size is limited and rounded; screens and limits of real devices.        *)
EXTENDS VideoPipeline

MCSizes == {<<20, 44>>, <<44, 20>>}
MCWidgets == {<<3, 4>>, <<4, 2>>}
MCScreens == {<<720, 1280>>, <<1080, 2400>>, <<1440, 3088>>, <<2560, 1600>>, <<2176, 1812>>}
=============================================================================
