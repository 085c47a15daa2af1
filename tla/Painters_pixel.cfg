CONSTANTS
    a1 = a1
    a2 = a2
    Artists <- TwoArtists
    CANVAS_WIDTH = 3
    CANVAS_HEIGHT = 2
    White = White
    Origin <- Corners
    Tries = 4
    Strokes = 4
SPECIFICATION PaintSpec
INVARIANT OneArtistPerPixel
CHECK_DEADLOCK FALSE
