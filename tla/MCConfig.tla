------------------------------- MODULE MCConfig -------------------------------
EXTENDS Config

\* A device that an image set up with an address to offer, one that has enrolled
\* since, and one that was reset and holds its token only.
Image == [ssid |-> "home", psk |-> "key", relay |-> "built-in", email |-> "owner",
          token |-> "t1", enrolled |-> FALSE]

MCFound == {Image, [Image EXCEPT !.enrolled = TRUE], Identity(Image)}
===============================================================================
