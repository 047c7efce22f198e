------------------------- MODULE MCIppCapabilities -------------------------
(* Model-checking instance of IppCapabilities: three entries of the       *)
(* SupportedMediaSizes table (ipphelper.c, lines 77-146), US letter, ISO   *)
(* A4 and 4x6 index card, with their dimensions in the unit the lookups    *)
(* compare, micrometres / 10 (hundredths of a millimetre); the size enum   *)
(* values come from a header outside the repository. The attribute values *)
(* a printer may send are chosen so that each branch of the decoder is     *)
(* taken.                                                                  *)
EXTENDS IppCapabilities

MCCatalog ==
    << [kw |-> "na_letter_8.5x11in", size |-> 2, w |-> 21590, h |-> 27940],
       [kw |-> "iso_a4_210x297mm", size |-> 26, w |-> 21000, h |-> 29700],
       [kw |-> "na_index-4x6_4x6in", size |-> 40, w |-> 10160, h |-> 15240] >>

\* media-col-ready collections: an A4 tray, a roll 216 mm wide for heights
\* 100-280 mm (letter and 4x6 fit, A4 is too tall), a tray with a range of
\* 4x6 heights, and a roll with a single height of an unknown size.
MCMediaCols ==
    { [x |-> 21000, y |-> 29700, hi |-> 0, range |-> FALSE, roll |-> FALSE],
      [x |-> 21600, y |-> 10000, hi |-> 28000, range |-> TRUE, roll |-> TRUE],
      [x |-> 10160, y |-> 15240, hi |-> 20000, range |-> TRUE, roll |-> FALSE],
      [x |-> 10000, y |-> 10000, hi |-> 0, range |-> FALSE, roll |-> TRUE] }

MCReadyKws == {"na_letter_8.5x11in", "iso_a4_210x297mm", "custom_min_10x10mm"}
MCSupportedKws == {"na_letter_8.5x11in", "custom_min_10x10mm"}
MCDefaultKws == {"ABSENT", "iso_a4_210x297mm"}
MCTypeKws == {"GLOSSY", "PHOTO", "OTHER"}
MCVersionKws == {"1.0", "2.0", "other"}

\* media-col-default collections: two margins, four other attributes before
\* the top margin, and a left margin listed twice.
MCMarginCols ==
    { <<"top", "left">>,
      <<"other", "other", "other", "other", "top">>,
      <<"left", "other", "left">> }

=============================================================================
