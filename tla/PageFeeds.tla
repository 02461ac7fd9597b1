----------------------------- MODULE PageFeeds ------------------------------
(***************************************************************************)
(* The adapters that read a document: the capabilities of the radar        *)
(* service with its list of frames, and the official web pages.            *)
(***************************************************************************)
EXTENDS FeedRecords

-----------------------------------------------------------------------------
(* radar.py.  Times here are seconds; a half hour of the other feeds is    *)
(* eight minutes of this one, two intervals of its frames.                 *)

RadarClock(time) == 480 * time

Sorted(times) == SetToSortSeq(times, LAMBDA s, t : s < t)

(* The service's default frame counts when it is newer than the list. *)
RadarFrames(layer) ==
    LET listed == ToSet(layer.times) IN
    Sorted(IF layer.default # None /\ \A t \in listed : layer.default > t
           THEN listed \cup {layer.default}
           ELSE listed)

Intervals(frames) ==
    SetToSortSeq({<<i, frames[i + 1] - frames[i]>> : i \in 1 .. Len(frames) - 1},
                 LAMBDA p, q : p[2] < q[2] \/ (p[2] = q[2] /\ p[1] < q[1]))

(* Twice the median, to stay with integers. *)
TwiceMedian(intervals) ==
    LET n == Len(intervals) IN
    intervals[(n + 1) \div 2][2] + intervals[(n + 2) \div 2][2]

(* round(numerator / denominator), which takes a half to the even side *)
RoundHalfEven(numerator, denominator) ==
    LET floor == numerator \div denominator
        rest == 2 * (numerator % denominator)
    IN IF rest > denominator \/ (rest = denominator /\ floor % 2 = 1) THEN floor + 1 ELSE floor

UpdateFrequency(frames) ==
    LET minutes == RoundHalfEven(TwiceMedian(Intervals(frames)), 120) IN
    IF Len(frames) < 2 THEN 240
    ELSE IF minutes < 1 THEN 60
    ELSE 60 * minutes

StaleThreshold == 900

(* No frame for three updates, and for a quarter of an hour at least. *)
Delayed(frames, retrieved) ==
    LET allowance == IF 3 * UpdateFrequency(frames) > StaleThreshold
                     THEN 3 * UpdateFrequency(frames) ELSE StaleThreshold
    IN retrieved - Last(frames) > allowance

(* The one record of the layer; without it, or with a frame that is no     *)
(* time, the answer is refused.                                            *)
RadarRecords(layer, retrieved) ==
    IF layer = None \/ layer.times = <<>> \/ None \in ToSet(layer.times)
    THEN Refused
    ELSE LET frames == RadarFrames(layer)
             status == [frames |-> frames, latest |-> Last(frames),
                        frequency |-> UpdateFrequency(frames),
                        delayed |-> Delayed(frames, retrieved)]
         IN Accepted(<<Record("mosaic", "mosaic", status, Last(frames), None)>>)

-----------------------------------------------------------------------------
(* web.py.  A page is the sequence of its headings, texts, scripts and     *)
(* comments; a text is one word here, and the text of a node the words in  *)
(* it.                                                                     *)

WordsBut(pieces, hidden) ==
    LET kept == Picked(pieces, {i \in DOMAIN pieces : pieces[i].kind \notin hidden})
    IN [i \in DOMAIN kept |-> kept[i].word]

(* get_text gives what a reader of the page sees. *)
Words(node) == WordsBut(node, {"script", "comment"})

(* next_elements gives comments too: they are NavigableStrings. *)
SectionWords(pieces) == WordsBut(pieces, {"script"})

(* Seeded fault: the end of the section is counted from the top of the page.*)
SectionTextToPageEnd(page, startHeading, stopHeading) ==
    LET at(word) == SelectInSeq(page, LAMBDA piece : piece.kind = "heading" /\ piece.word = word)
        rest == SubSeq(page, at(startHeading) + 1, Len(page))
    IN IF at(startHeading) = 0 THEN None
       ELSE SectionWords(IF at(stopHeading) = 0 THEN rest ELSE SubSeq(rest, 1, at(stopHeading) - 1))

(* _section_text: from the first heading of that name, whose own words are *)
(* stripped, to the next heading that ends the section, or to the end.     *)
SectionText(page, startHeading, stopHeading) ==
    LET start == SelectInSeq(page, LAMBDA piece :
                     piece.kind = "heading" /\ piece.word = startHeading)
        rest == SubSeq(page, start + 1, Len(page))
        stop == SelectInSeq(rest, LAMBDA piece :
                    piece.kind = "heading" /\ piece.word = stopHeading)
    IN IF start = 0 THEN None
       ELSE SectionWords(IF stop = 0 THEN rest ELSE SubSeq(rest, 1, stop - 1))

(* A text is filed under its digest; texts that are empty, were seen       *)
(* before, or name nothing of interest are passed over.                    *)
NoticeRecords(texts, terms) ==
    LET relevant == {text \in texts : text # <<>> /\ (terms = {} \/ ToSet(text) \cap terms # {})}
    IN Accepted(SetToSeq({Record(text, text, "notice", None, None) : text \in relevant}))

(* source.nodes are the parts of the page its selectors find. *)
WebRecords(source, page, nodes) ==
    IF page = <<>> \/ nodes = {}
    THEN Refused
    ELSE IF ~source.emitRecords
    THEN Accepted(<<>>)
    ELSE IF source.activeSection = None
    THEN NoticeRecords({Words(node) : node \in nodes}, source.terms)
    ELSE LET text == SectionText(page, source.activeSection[1], source.activeSection[2])
         IN IF text = None THEN Refused ELSE NoticeRecords({text}, source.terms)
=============================================================================
