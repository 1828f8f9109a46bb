----------------------------- MODULE MCAnswering -----------------------------
(* Routes and Accept headers for TLC. *)
EXTENDS Answering

(* Relations in short, in full, and one that is not from the GS1 vocabulary; *)
(* and links that cannot be listed or printed.                              *)
Links ==
    [rel : {"gs1:pip", "voc/pip", "gs1:defaultLink", "voc/defaultLink", "alternate"},
     href : {"one"}, detail : {"fine"}]
      \cup {[rel |-> "gs1:pip", href |-> "two", detail |-> "fine"],
            [rel |-> "gs1:defaultLink", href |-> None, detail |-> "fine"],
            [rel |-> "gs1:pip", href |-> "one", detail |-> "unlistable"],
            [rel |-> "alternate", href |-> "two", detail |-> "unprintable"]}
LinkTypes == {"gs1:pip", "voc/pip", "gs1:defaultLink", "alternate", "gs1:epil"}

Expanded(rel) ==
    CASE rel = "gs1:pip"         -> "voc/pip"
      [] rel = "gs1:defaultLink" -> "voc/defaultLink"
      [] rel = "gs1:epil"        -> "voc/epil"
      [] OTHER                   -> rel

(* Ranges that stand for one offer, for several, for all and for none. *)
Entries == [range : {"application/linkset+json", "application/json", "text/html",
                     "text/*", "application/*", "*/*", "image/png"},
            q : {0, 5, 10}]

(* Every route of three links, of two with one entry and of one with two,    *)
(* and every header of three entries.                                        *)
Bounds == {<<3, 0>>, <<2, 1>>, <<1, 2>>, <<0, 3>>}

===============================================================================
